---- MODULE Spec2Model ----
(***************************************************************************)
(* Verification model of the sensybull 10-K pipeline.                      *)
(*                                                                         *)
(* Part I   EDGARClient (edgar/client.py): the shared rate limiter and the *)
(*          retry loop, driven by the requests one run_pipeline makes.     *)
(*                                                                         *)
(* Part II  FilingWatcher (edgar/watcher.py): poll_once, run and stop.     *)
(*                                                                         *)
(* Part III run_pipeline (main.py) against SQLiteStorage (storage/db.py).  *)
(*                                                                         *)
(* Part IV  GroqAnalyzer (analysis/groq_client.py): the retry loop of      *)
(*          analyze_section and generate_investment_brief, the handling of *)
(*          the response text, and _parse_json_response.                   *)
(*                                                                         *)
(* Part V   The analyses of one filing and the synthesis of its brief      *)
(*          (main.py, analysis/groq_client.py).                            *)
(*                                                                         *)
(* Part VI  run_backfill and the consumer of run_watcher (main.py).        *)
(*                                                                         *)
(* Part VII The filing locator of EDGARClient (edgar/client.py):           *)
(*          get_filing_document_url and get_latest_10k_accession, on the   *)
(*          documents the archive answers with.                            *)
(*                                                                         *)
(* Part VIII FilingParser (edgar/parser.py): extract_sections and          *)
(*          validate_sections.                                             *)
(*                                                                         *)
(* Each part has its own specification; the variables of the other parts   *)
(* keep their initial values in it.                                        *)
(*                                                                         *)
(* Time is counted in ticks of 1/TicksPerSecond seconds.  The event loop   *)
(* is cooperative: a coroutine runs without interruption from one await to *)
(* the next, a timer or response that is due is delivered before the loop  *)
(* waits again, and the clock moves only when nothing is runnable.         *)
(***************************************************************************)
EXTENDS Integers, Sequences, FiniteSets, TLC

VARIABLES
    now,              \* asyncio.get_event_loop().time(), in ticks
    lastRequestTime,  \* EDGARClient._last_request_time, in ticks
    driver,           \* "pipeline": run_pipeline drives the client;
                      \* "single": one of its steps is called on its own
    phase,            \* which step of run_pipeline is using the client
    pc,               \* per client operation: its suspension point
    attempt,          \* per operation: the loop variable of _rate_limited_get
    due,              \* per operation: when its timer or response is due
    stage,            \* get_filing_document_url: 1 = JSON index, 2 = HTML index
    docUrl,           \* result of get_filing_document_url
    outs,             \* per call: the outcome of every request it sent
    backoffs,         \* per call: every backoff sleep it performed, in ticks
    res,              \* per call: how the call ended
    failuresLeft,     \* how many more failing responses the remote may give
    lastStart,        \* history: start time of the most recent request
    lastTask,         \* history: operation that sent the most recent request
    lastReqEnd,       \* history: end time of the most recent request
    ssGap,            \* history: start-to-start gap of the two latest requests
    esGap             \* history: end-to-start gap of the two latest requests

clientVars == <<now, lastRequestTime, driver, phase, pc, attempt, due, stage, docUrl,
                outs, backoffs, res, failuresLeft, lastStart, lastTask,
                lastReqEnd, ssGap, esGap>>

VARIABLES
    wpc,              \* FilingWatcher.run: "new", "polling", "sleeping", "returned"
    running,          \* FilingWatcher._running
    seen,             \* FilingWatcher.seen_accessions
    queue,            \* the asyncio.Queue of filing events
    stored,           \* accessions db.get_all_accessions() returns
    lastFeed,         \* history: entries of the feed the last poll_once parsed
    seenBefore,       \* history: seen_accessions when that poll_once began
    lastEvents,       \* history: the list that poll_once returned
    cycle,            \* history: how the last poll cycle ended
    stopBeforeRun,    \* history: stop() was called before run() began
    stopDuringRun,    \* history: stop() was called while run() was executing
    pollAfterStop,    \* history: a poll cycle began after a call of stop()
    enqueued          \* history: the accessions of the events put on the queue

watcherVars == <<wpc, running, seen, queue, stored, lastFeed, seenBefore,
                 lastEvents, cycle, stopBeforeRun, stopDuringRun, pollAfterStop,
                 enqueued>>

VARIABLES
    filings,          \* per accession: its rows in the filings table
    briefs,           \* per accession: the investment_briefs rows of its filing
    latest,           \* per ticker: the latest 10-K the archive lists, or None
    runs,             \* how many runs of run_pipeline have begun
    rpc,              \* the run in progress: its await, or "idle"
    rTicker,          \* the run: its ticker
    rAcc,             \* the run: the accession it resolved, or None
    rFetches,         \* history: the kinds of archive request the run made
    rLLM,             \* history: the kinds of LLM call the run made
    rWrites,          \* history: the tables the run wrote
    rChecked,         \* history: the run has evaluated db.filing_exists
    rInStorage,       \* history: the accession was stored when it was resolved
    rDocUrl,          \* the run: doc_url, "unset" before the gather returns
    rCaught           \* history: the run ended in its except clause

pipeVars == <<filings, briefs, latest, runs, rpc, rTicker, rAcc, rFetches,
              rLLM, rWrites, rChecked, rInStorage, rDocUrl, rCaught>>

VARIABLES
    gFn,              \* the analyzer method that is called
    gSection,         \* its section_name (analyze_section)
    gPc,              \* its suspension point: "calling", "sleeping", or "done"
    gAttempt,         \* the loop variable attempt
    gOuts,            \* history: the outcome of every call to the endpoint
    gSleeps,          \* history: every backoff sleep, in seconds
    gText,            \* the response text of the call that succeeded
    gResult,          \* the dict the method returned
    pObject,          \* _parse_json_response: the text of a bare JSON object
    pWrap,            \* how the object is wrapped for the call
    pOut              \* what the call returned, or "pending"

groqVars == <<gFn, gSection, gPc, gAttempt, gOuts, gSleeps, gText, gResult,
              pObject, pWrap, pOut>>

VARIABLES
    validated,        \* the sections of the filing that have text
    fPc,              \* run_pipeline, steps 5 and 6: its position
    aPc,              \* per section to analyze: "skipped", "inflight", "returned"
    aResult,          \* per section: the dict analyze_section returned
    analyses,         \* the dict analyses of run_pipeline
    sPc,              \* generate_investment_brief: "none", "inflight", "done"
    sArg,             \* history: its argument analyses, as it was at the call
    sEmbedded,        \* analyses_clean, which the prompt embeds
    sInflightAtCall,  \* history: the analyses in flight when it was called
    sCalls,           \* history: the calls of generate_investment_brief
    sResult,          \* brief, as generate_investment_brief returned it
    sBrief,           \* history: the brief that db.save_brief recorded
    fRaised           \* history: a save raised and the except clause ended the run

synthVars == <<validated, fPc, aPc, aResult, analyses, sPc, sArg, sEmbedded,
               sInflightAtCall, sCalls, sResult, sBrief, fRaised>>

VARIABLES
    bPc,              \* run_backfill: "loop", "running", "done", "aborted"
    bIndex,           \* the position of its loop in the watchlist
    bInvoked,         \* history: the tickers run_pipeline was called for
    bResults,         \* results: per ticker, what run_pipeline returned
    bCaught,          \* history: the tickers whose run raised an exception
    cQueue,           \* run_watcher: the asyncio.Queue of events
    cCur,             \* process_events: the event whose pipeline runs
    cActive,          \* the number of pipeline runs in progress
    cEnq,             \* history: the events in the order they were put
    cDeq,             \* history: the events in the order they were got
    cEnded,           \* history: the events in the order their runs ended
    cPutWhileBusy     \* history: an event was put while a pipeline ran

modeVars == <<bPc, bIndex, bInvoked, bResults, bCaught, cQueue, cCur, cActive, cEnq,
              cDeq, cEnded, cPutWhileBusy>>

VARIABLES
    lPc,              \* get_filing_document_url: "idle", "stage1", "stage2", "done"
    lIndex,           \* the answer to the request for the JSON index
    lPage,            \* the answer to the request for the HTML index page
    lFetched,         \* history: the requests the call made, in order
    lHtmFiles,        \* htm_files after the filter
    lPrimary,         \* htm_files[0] after the sort
    lResult,          \* what the call returned
    lRaised,          \* the exception the call raised, or None
    xPc,              \* get_latest_10k_accession: "idle", "done"
    xData,            \* the submissions document
    xResult           \* what the call returned

locVars == <<lPc, lIndex, lPage, lFetched, lHtmFiles, lPrimary, lResult, lRaised,
             xPc, xData, xResult>>

VARIABLES
    ePc,              \* extract_sections: "idle", "done"
    eText,            \* its argument, the cleaned text
    eOrder,           \* the names of sorted_sections, in order
    eBounds,          \* per section found: start_pos and end_pos
    eSections,        \* the mapping it returned
    vPc,              \* validate_sections: "idle", "done"
    vSections,        \* its argument
    vScore            \* quality_score

sectVars == <<ePc, eText, eOrder, eBounds, eSections, vPc, vSections, vScore>>

VARIABLES
    kPc,              \* the lookup of poll_once for one entry: "idle", "done"
    kWatchlist,       \* config.watchlist, ticker -> CIK, in insertion order
    kCik,             \* cik, as the pattern found it in the entry
    kTicker,          \* ticker, after the lookup and the loop
    kEvent            \* filing_event, or NoEvent when the entry is skipped

lookVars == <<kPc, kWatchlist, kCik, kTicker, kEvent>>

VARIABLES
    feedPolls,        \* history: the requests poll_once has sent for the feed
    feedGap           \* history: ticks from the start of the latest request of
                      \* the EDGARClient to the start of the latest feed request

feedVars == <<feedPolls, feedGap>>

VARIABLES
    nPc,              \* _extract_annual_values: "idle", "done"
    nUsGaap,          \* us_gaap: per concept, its units.USD list
    nConcepts,        \* concept_names
    nResult           \* the list it returned

factVars == <<nPc, nUsGaap, nConcepts, nResult>>

VARIABLES
    tGather,          \* the gather over the analyses: "idle", "gathering",
                      \*   "returned"
    tPc,              \* per section, its analyze_section: "none" (no task),
                      \*   "new", "calling", "sleeping", "done"
    tAttempt,         \* per section, attempt of its loop
    tSent,            \* per section, total_tokens_used when its request in
                      \*   flight was sent
    tOwn,             \* per section, the total_tokens of the response its
                      \*   call got (0 without one, or without usage)
    tOut,             \* per section, what its call returned: "none",
                      \*   "result" (parsed or parse_failed), "error"
    total_tokens_used \* GroqAnalyzer.total_tokens_used

tokVars == <<tGather, tPc, tAttempt, tSent, tOwn, tOut, total_tokens_used>>

vars ==
    <<clientVars, watcherVars, pipeVars, groqVars, synthVars, modeVars,
      locVars, sectVars, lookVars, feedVars, factVars, tokVars>>

nonClientVars ==
    <<watcherVars, pipeVars, groqVars, synthVars, modeVars, locVars,
      sectVars, lookVars, feedVars, factVars, tokVars>>
nonWatcherVars ==
    <<clientVars, pipeVars, groqVars, synthVars, modeVars, locVars,
      sectVars, lookVars, feedVars, factVars, tokVars>>
nonPipeVars ==
    <<clientVars, watcherVars, groqVars, synthVars, modeVars, locVars,
      sectVars, lookVars, feedVars, factVars, tokVars>>
nonGroqVars ==
    <<clientVars, watcherVars, pipeVars, synthVars, modeVars, locVars,
      sectVars, lookVars, feedVars, factVars, tokVars>>
nonSynthVars ==
    <<clientVars, watcherVars, pipeVars, groqVars, modeVars, locVars,
      sectVars, lookVars, feedVars, factVars, tokVars>>
nonModeVars ==
    <<clientVars, watcherVars, pipeVars, groqVars, synthVars, locVars,
      sectVars, lookVars, feedVars, factVars, tokVars>>
nonLocVars ==
    <<clientVars, watcherVars, pipeVars, groqVars, synthVars, modeVars,
      sectVars, lookVars, feedVars, factVars, tokVars>>
nonSectVars ==
    <<clientVars, watcherVars, pipeVars, groqVars, synthVars, modeVars,
      locVars, lookVars, feedVars, factVars, tokVars>>
nonLookVars ==
    <<clientVars, watcherVars, pipeVars, groqVars, synthVars, modeVars,
      locVars, sectVars, feedVars, factVars, tokVars>>
nonFeedVars ==
    <<clientVars, watcherVars, pipeVars, groqVars, synthVars, modeVars,
      locVars, sectVars, lookVars, factVars, tokVars>>
nonFactVars ==
    <<clientVars, watcherVars, pipeVars, groqVars, synthVars, modeVars,
      locVars, sectVars, lookVars, feedVars, tokVars>>
nonTokVars ==
    <<clientVars, watcherVars, pipeVars, groqVars, synthVars, modeVars,
      locVars, sectVars, lookVars, feedVars, factVars>>
nonModePipeVars ==
    <<clientVars, watcherVars, groqVars, synthVars, locVars, sectVars,
      lookVars, feedVars, factVars, tokVars>>

----------------------------------------------------------------------------
(* Bounds of the model *)

TicksPerSecond == 25
ShortDur == 1
LongDur == 4
\* failing responses the remote may give to a step called on its own
MaxFailures == 4
\* failing responses the remote may give during one run_pipeline
MaxPipelineFailures == 1

(* Program constants *)

\* config.sec_rate_limit_delay = 0.12 s
RateLimitDelay == (12 * TicksPerSecond) \div 100
\* max_retries: int = 3
MaxRetries == 3

NoTime == 0 - 1
NoGap == 0 - 1

Durations == {ShortDur, LongDur}

\* The operations run_pipeline performs on its EDGARClient.
Ops == {"acc", "xbrl", "doc", "html"}
\* The operations that fetch through _rate_limited_get.
RLOps == {"acc", "xbrl", "doc"}
\* The fetches: one per operation, two for get_filing_document_url.
Calls == {"acc", "xbrl", "doc1", "doc2", "html"}
RLCalls == {"acc", "xbrl", "doc1", "doc2"}

Outcomes == {"ok", "429", "http_error", "request_error"}

CallOf(t) == IF t = "doc" THEN (IF stage = 1 THEN "doc1" ELSE "doc2") ELSE t

----------------------------------------------------------------------------
(* _rate_limited_get and fetch_filing_html: the rate limiter *)

\* elapsed = now - self._last_request_time
Elapsed == now - lastRequestTime

\* Mutant of SleepFor: the sleep is one tick short.
SleepForShort(elapsed) == RateLimitDelay - elapsed - 1

\* asyncio.sleep(self._rate_limit_delay - elapsed)
SleepFor(elapsed) == RateLimitDelay - elapsed

\* Mutant of Backoff: the exponent is the attempt itself.
BackoffFromOne(a) == (2 ^ a) * TicksPerSecond

\* wait = 2 ** (attempt + 1), seconds
Backoff(a) == (2 ^ (a + 1)) * TicksPerSecond

\* Whether the retry loop sleeps after attempt a ended with outcome o: always
\* on a 429 (then: continue), on any other failure only if a retry follows.
BacksOff(o, a) == o = "429" \/ a < MaxRetries

\* The exception an error response turns into.
ErrorOf(o) == IF o = "request_error" THEN "RequestError" ELSE "HTTPStatusError"

\* End time of the most recent request once t's response has been received.
EndSeen(t) == IF lastTask = t THEN now ELSE lastReqEnd

\* self._last_request_time = time(); the request is sent and awaited.
\* e is the end time of the most recent request (NoTime while in flight).
Send(t, e) ==
    \E d \in Durations :
        /\ lastRequestTime' = now
        /\ pc' = [pc EXCEPT ![t] = "resp"]
        /\ due' = [due EXCEPT ![t] = now + d]
        /\ lastStart' = now
        /\ lastTask' = t
        /\ lastReqEnd' = NoTime
        /\ ssGap' = IF lastStart # NoTime THEN now - lastStart ELSE NoGap
        /\ esGap' = IF lastStart # NoTime /\ e # NoTime THEN now - e ELSE NoGap

\* The rate-limit check up to the next await: either the sleep or the request.
RateCheck(t, e) ==
    IF Elapsed < RateLimitDelay
    THEN /\ pc' = [pc EXCEPT ![t] = "rl_sleep"]
         /\ due' = [due EXCEPT ![t] = now + SleepFor(Elapsed)]
         /\ lastReqEnd' = e
         /\ UNCHANGED <<lastRequestTime, lastStart, lastTask, ssGap, esGap>>
    ELSE Send(t, e)

\* An operation leaves the limiter alone; e as in Send.
NoRequest(t, newpc, e) ==
    /\ pc' = [pc EXCEPT ![t] = newpc]
    /\ lastReqEnd' = e
    /\ UNCHANGED <<lastRequestTime, due, lastStart, lastTask, ssGap, esGap>>

----------------------------------------------------------------------------
(* run_pipeline's use of the client *)

Startable(t) ==
    CASE t = "acc"  -> phase = "accession"
      [] t = "xbrl" -> phase = "gather"
      [] t = "doc"  -> phase = "gather" /\ pc["xbrl"] # "idle"
      [] t = "html" -> phase = "download"

\* The step after this one: run_pipeline goes on to step p, a step called on
\* its own is followed by nothing.
Continue(p) == IF driver = "pipeline" THEN p ELSE "end"

\* run_pipeline after the gather: an exception of get_xbrl_facts ends the
\* run, a missing document URL ends it, otherwise the download follows.
AfterGather(xbrlPc, docPc, url) ==
    IF xbrlPc = "raised" THEN "end"
    ELSE IF xbrlPc = "done" /\ docPc = "done"
         THEN (IF url = "url" THEN Continue("download") ELSE "end")
         ELSE phase

\* A client operation is entered and runs to its first await.
StartOp(t) ==
    /\ pc[t] = "idle"
    /\ Startable(t)
    /\ RateCheck(t, lastReqEnd)
    /\ UNCHANGED <<now, driver, phase, attempt, stage, docUrl, outs, backoffs,
                   res, failuresLeft>>
    /\ UNCHANGED nonClientVars

\* The rate-limit sleep is over.
WakeRL(t) ==
    /\ pc[t] = "rl_sleep"
    /\ due[t] <= now
    /\ Send(t, lastReqEnd)
    /\ UNCHANGED <<now, driver, phase, attempt, stage, docUrl, outs, backoffs,
                   res, failuresLeft>>
    /\ UNCHANGED nonClientVars

\* _rate_limited_get returns the response to the operation that called it.
Return(t) ==
    LET c == CallOf(t) IN
    /\ res' = [res EXCEPT ![c] = "ok"]
    /\ UNCHANGED <<backoffs>>
    /\ CASE t = "acc" ->
              /\ NoRequest(t, "done", EndSeen(t))
              /\ \E proceed \in BOOLEAN :
                     phase' = IF proceed THEN Continue("gather") ELSE "end"
              /\ UNCHANGED <<attempt, stage, docUrl>>
         [] t = "xbrl" ->
              /\ NoRequest(t, "done", EndSeen(t))
              /\ phase' = AfterGather("done", pc["doc"], docUrl)
              /\ UNCHANGED <<attempt, stage, docUrl>>
         [] t = "doc" /\ stage = 1 ->
              \E candidate \in BOOLEAN :
                  IF candidate
                  THEN /\ NoRequest(t, "done", EndSeen(t))
                       /\ docUrl' = "url"
                       /\ phase' = AfterGather(pc["xbrl"], "done", "url")
                       /\ UNCHANGED <<attempt, stage>>
                  ELSE /\ stage' = 2
                       /\ attempt' = [attempt EXCEPT ![t] = 0]
                       /\ RateCheck(t, EndSeen(t))
                       /\ UNCHANGED <<docUrl, phase>>
         [] t = "doc" /\ stage = 2 ->
              \E match \in BOOLEAN :
                  /\ NoRequest(t, "done", EndSeen(t))
                  /\ docUrl' = IF match THEN "url" ELSE "None"
                  /\ phase' = AfterGather(pc["xbrl"], "done", docUrl')
                  /\ UNCHANGED <<attempt, stage>>

\* _rate_limited_get raises e into the operation that called it.
Raise(t, e) ==
    LET c == CallOf(t) IN
    /\ res' = [res EXCEPT ![c] = e]
    /\ CASE t = "acc" ->
              /\ NoRequest(t, "raised", EndSeen(t))
              /\ phase' = "end"
              /\ UNCHANGED <<stage, docUrl>>
         [] t = "xbrl" ->
              /\ NoRequest(t, "raised", EndSeen(t))
              /\ phase' = "end"
              /\ UNCHANGED <<stage, docUrl>>
         [] t = "doc" /\ stage = 1 ->
              /\ stage' = 2
              /\ RateCheck(t, EndSeen(t))
              /\ UNCHANGED <<docUrl, phase>>
         [] t = "doc" /\ stage = 2 ->
              /\ NoRequest(t, "done", EndSeen(t))
              /\ docUrl' = "None"
              /\ phase' = AfterGather(pc["xbrl"], "done", "None")
              /\ UNCHANGED <<stage>>

\* The response of a request sent by _rate_limited_get arrives.
Response(t) ==
    /\ t \in RLOps
    /\ pc[t] = "resp"
    /\ due[t] <= now
    /\ \E o \in Outcomes :
        /\ o # "ok" => failuresLeft > 0
        /\ failuresLeft' = IF o = "ok" THEN failuresLeft ELSE failuresLeft - 1
        /\ outs' = [outs EXCEPT ![CallOf(t)] = Append(@, o)]
        /\ IF o = "ok"
           THEN Return(t)
           ELSE IF BacksOff(o, attempt[t])
                THEN /\ pc' = [pc EXCEPT ![t] = "backoff"]
                     /\ due' = [due EXCEPT ![t] = now + Backoff(attempt[t])]
                     /\ backoffs' = [backoffs EXCEPT
                                       ![CallOf(t)] = Append(@, Backoff(attempt[t]))]
                     /\ lastReqEnd' = EndSeen(t)
                     /\ UNCHANGED <<lastRequestTime, lastStart, lastTask, ssGap,
                                    esGap, phase, attempt, stage, docUrl, res>>
                ELSE /\ Raise(t, ErrorOf(o))
                     /\ attempt' = [attempt EXCEPT
                                      ![t] = IF t = "doc" /\ stage = 1 THEN 0 ELSE @]
                     /\ UNCHANGED <<backoffs>>
    /\ UNCHANGED <<now, driver>>
    /\ UNCHANGED nonClientVars

\* The backoff sleep is over: the next iteration of the retry loop, or the
\* end of the loop.
BackoffWake(t) ==
    /\ pc[t] = "backoff"
    /\ due[t] <= now
    /\ IF attempt[t] + 1 > MaxRetries
       THEN /\ Raise(t, "RuntimeError")
            /\ attempt' = [attempt EXCEPT
                             ![t] = IF t = "doc" /\ stage = 1 THEN 0 ELSE @ + 1]
       ELSE /\ attempt' = [attempt EXCEPT ![t] = @ + 1]
            /\ RateCheck(t, lastReqEnd)
            /\ UNCHANGED <<phase, stage, docUrl, res>>
    /\ UNCHANGED <<now, driver, outs, backoffs, failuresLeft>>
    /\ UNCHANGED nonClientVars

\* fetch_filing_html: the streamed response ends, or raise_for_status or
\* the transport raises; nothing is retried.
HtmlResponse ==
    /\ pc["html"] = "resp"
    /\ due["html"] <= now
    /\ \E o \in Outcomes :
        /\ o # "ok" => failuresLeft > 0
        /\ failuresLeft' = IF o = "ok" THEN failuresLeft ELSE failuresLeft - 1
        /\ outs' = [outs EXCEPT !["html"] = Append(@, o)]
        /\ res' = [res EXCEPT !["html"] = IF o = "ok" THEN "ok" ELSE ErrorOf(o)]
        /\ NoRequest("html", IF o = "ok" THEN "done" ELSE "raised", EndSeen("html"))
    /\ phase' = "end"
    /\ UNCHANGED <<now, driver, attempt, stage, docUrl, backoffs>>
    /\ UNCHANGED nonClientVars

Waiting(t) == pc[t] \in {"rl_sleep", "resp", "backoff"}
Runnable(t) == (pc[t] = "idle" /\ Startable(t)) \/ (Waiting(t) /\ due[t] <= now)

\* Nothing is runnable: the loop waits for the earliest timer or response.
Advance ==
    /\ \A t \in Ops : ~Runnable(t)
    /\ \E t \in Ops :
        /\ Waiting(t)
        /\ \A u \in Ops : Waiting(u) => due[t] <= due[u]
        /\ now' = due[t]
    /\ UNCHANGED <<lastRequestTime, driver, phase, pc, attempt, due, stage,
                   docUrl, outs, backoffs, res, failuresLeft, lastStart, lastTask,
                   lastReqEnd, ssGap, esGap>>
    /\ UNCHANGED nonClientVars

\* The loop clock (time.monotonic) when the client is first used: the delay
\* has long passed since time 0.0, the initial _last_request_time, so the
\* first request is never delayed.
StartTimes == {RateLimitDelay}

ClientStart ==
    /\ now \in StartTimes
    /\ lastRequestTime = 0
    /\ \/ driver = "pipeline" /\ phase = "accession"
          /\ failuresLeft = MaxPipelineFailures
       \/ driver = "single" /\ phase \in {"accession", "gather", "download"}
          /\ failuresLeft = MaxFailures
    /\ pc = [t \in Ops |-> "idle"]
    /\ attempt = [t \in Ops |-> 0]
    /\ due = [t \in Ops |-> 0]
    /\ stage = 1
    /\ docUrl = "pending"
    /\ outs = [c \in Calls |-> <<>>]
    /\ backoffs = [c \in Calls |-> <<>>]
    /\ res = [c \in Calls |-> "none"]
    /\ lastStart = NoTime
    /\ lastTask = "none"
    /\ lastReqEnd = NoTime
    /\ ssGap = NoGap
    /\ esGap = NoGap

\* The client before any use, as the other parts leave it.
ClientUnused ==
    /\ now = 0
    /\ lastRequestTime = 0
    /\ driver = "single"
    /\ phase = "end"
    /\ pc = [t \in Ops |-> "idle"]
    /\ attempt = [t \in Ops |-> 0]
    /\ due = [t \in Ops |-> 0]
    /\ stage = 1
    /\ docUrl = "pending"
    /\ outs = [c \in Calls |-> <<>>]
    /\ backoffs = [c \in Calls |-> <<>>]
    /\ res = [c \in Calls |-> "none"]
    /\ failuresLeft = 0
    /\ lastStart = NoTime
    /\ lastTask = "none"
    /\ lastReqEnd = NoTime
    /\ ssGap = NoGap
    /\ esGap = NoGap

NextClient ==
    \/ \E t \in Ops : StartOp(t)
    \/ \E t \in Ops : WakeRL(t)
    \/ \E t \in RLOps : Response(t)
    \/ \E t \in RLOps : BackoffWake(t)
    \/ HtmlResponse
    \/ Advance

----------------------------------------------------------------------------
(* Part II: FilingWatcher *)

\* Bound: the number of entries of a feed.
MaxFeedLen == 2

None == "None"

\* No match of a CIK pattern: (\d+) never matches the empty string.
NoCik == <<>>

\* The accession numbers that occur in feeds.
Accessions == {"A", "B"}

\* config.watchlist, ticker -> CIK, in insertion order.  A CIK is the
\* sequence of its digits.
Watchlist ==
    << [ticker |-> "AAPL",  cik |-> <<3, 2, 0, 1, 9, 3>>],
       [ticker |-> "MSFT",  cik |-> <<7, 8, 9, 0, 1, 9>>],
       [ticker |-> "GOOGL", cik |-> <<1, 6, 5, 2, 0, 4, 4>>],
       [ticker |-> "NVDA",  cik |-> <<1, 0, 4, 5, 8, 1, 0>>],
       [ticker |-> "META",  cik |-> <<1, 3, 2, 6, 8, 0, 1>>] >>

\* config.watchlist[ticker], for a watchlist wl
CikIn(wl, ticker) ==
    LET i == CHOOSE j \in 1..Len(wl) : wl[j].ticker = ticker
    IN  wl[i].cik

WatchlistCik(ticker) == CikIn(Watchlist, ticker)

\* What the two CIK patterns find in an entry: linkCik is the match of
\* /data/(\d+)/ in the link, textCik the match of CIK[=:]?\s*(\d+) in title
\* and summary; NoCik is no match.
CikMatches ==
    { [linkCik |-> <<3, 2, 0, 1, 9, 3>>, textCik |-> NoCik],
      [linkCik |-> NoCik, textCik |-> <<0, 0, 0, 0, 7, 8, 9, 0, 1, 9>>],
      [linkCik |-> <<9, 9>>, textCik |-> <<3, 2, 0, 1, 9, 3>>],
      [linkCik |-> NoCik, textCik |-> NoCik] }

\* A feed entry, as the patterns of poll_once see it: acc is the match of
\* (\d{10}-\d{2}-\d{6}) in link and summary.
Entries ==
    { [acc |-> a, linkCik |-> c.linkCik, textCik |-> c.textCik] :
        a \in Accessions \cup {None}, c \in CikMatches }

Feeds == UNION { [1..n -> Entries] : n \in 0..MaxFeedLen }

\* cik_match: the link first, then title and summary.
ExtractCik(entry) ==
    IF entry.linkCik # NoCik THEN entry.linkCik ELSE entry.textCik

\* str.lstrip("0")
RECURSIVE LStrip0(_)
LStrip0(s) == IF s # <<>> /\ Head(s) = 0 THEN LStrip0(Tail(s)) ELSE s

\* self._cik_to_ticker.get(cik), the dict being built from wl: of the
\* entries that have one CIK the last gives the ticker.
ExactTickerIn(wl, cik) ==
    LET hits == {i \in 1..Len(wl) : wl[i].cik = cik}
    IN  IF hits = {} THEN None
        ELSE wl[CHOOSE i \in hits : \A j \in hits : j <= i].ticker

ExactTicker(cik) == ExactTickerIn(Watchlist, cik)

\* Mutant of SameUnpadded: only the identifier of the feed is stripped.
SameUnpaddedFeedOnly(cik, wlCik) == LStrip0(cik) = wlCik

\* cik.lstrip("0") == wl_cik.lstrip("0")
SameUnpadded(cik, wlCik) == LStrip0(cik) = LStrip0(wlCik)

\* The loop over self._cik_to_ticker.items(): the first key that is equal
\* once leading zeros are stripped, and the ticker the dict holds for it.
PaddedTickerIn(wl, cik) ==
    LET hits == {i \in 1..Len(wl) : SameUnpadded(cik, wl[i].cik)}
    IN  IF hits = {} THEN None
        ELSE ExactTickerIn(wl,
                 wl[CHOOSE i \in hits : \A j \in hits : i <= j].cik)

PaddedTicker(cik) == PaddedTickerIn(Watchlist, cik)

\* ticker, after the lookup and the loop
TickerIn(wl, cik) ==
    IF ExactTickerIn(wl, cik) # None
    THEN ExactTickerIn(wl, cik) ELSE PaddedTickerIn(wl, cik)

TickerOf(cik) == TickerIn(Watchlist, cik)

\* Mutant of MarkSeen: the accession is not recorded.
MarkSeenNot(seenSet, accession) == seenSet

\* self.seen_accessions.add(accession)
MarkSeen(seenSet, accession) == seenSet \cup {accession}

\* The loop of poll_once over feed.entries.
RECURSIVE PollLoop(_, _, _)
PollLoop(entries, seenSet, newFilings) ==
    IF entries = <<>>
    THEN [seen |-> seenSet, events |-> newFilings]
    ELSE LET entry == Head(entries)
             rest == Tail(entries)
         IN  IF entry.acc = None \/ entry.acc \in seenSet
             THEN PollLoop(rest, seenSet, newFilings)
             ELSE IF ExtractCik(entry) = NoCik
             THEN PollLoop(rest, seenSet, newFilings)
             ELSE IF TickerOf(ExtractCik(entry)) = None
             THEN PollLoop(rest, seenSet, newFilings)
             ELSE PollLoop(rest, MarkSeen(seenSet, entry.acc),
                      Append(newFilings,
                          [ticker |-> TickerOf(ExtractCik(entry)),
                           cik |-> WatchlistCik(TickerOf(ExtractCik(entry))),
                           accession |-> entry.acc]))

\* while self._running
LoopContinues == running

\* Mutant of AfterPollError: the exception leaves run().
PollErrorEscapes == "returned"

\* except Exception: log; then the sleep of the cycle.
AfterPollError == "sleeping"

\* A poll cycle begins: which call of stop(), if any, came before it.
NotePoll ==
    pollAfterStop' = IF stopDuringRun # "no" THEN "during"
                     ELSE IF stopBeforeRun THEN "before"
                     ELSE pollAfterStop

\* run() up to its first await: the flag, the load of the seen accessions
\* (a failure of the database is ignored) and the request of poll_once.
RunStart ==
    /\ wpc = "new"
    /\ running' = TRUE
    /\ \E loaded \in {stored, {}} : seen' = seen \cup loaded
    /\ wpc' = "polling"
    /\ NotePoll
    /\ UNCHANGED <<queue, stored, lastFeed, seenBefore, lastEvents, cycle,
                   stopBeforeRun, stopDuringRun>>
    /\ UNCHANGED enqueued
    /\ UNCHANGED nonWatcherVars

\* poll_once on a feed, from the seen set as it is.
PollOnce(feed) == PollLoop(feed, seen, <<>>)

\* What a poll can return over the feeds, from each seen set.
PollResults ==
    { [from |-> S, to |-> PollLoop(feed, S, <<>>)] :
        S \in SUBSET Accessions, feed \in Feeds }

\* Mutant of PutAll: the last event of the list is not put.
RECURSIVE PutAllButLast(_, _)
PutAllButLast(q, newFilings) ==
    IF Len(newFilings) <= 1 THEN q
    ELSE PutAllButLast(Append(q, Head(newFilings)), Tail(newFilings))

\* for filing in new_filings: await self.queue.put(filing)
RECURSIVE PutAll(_, _)
PutAll(q, newFilings) ==
    IF newFilings = <<>> THEN q
    ELSE PutAll(Append(q, Head(newFilings)), Tail(newFilings))

\* The accessions of a list of events, in its order.
AccessionsOf(events) == [i \in 1..Len(events) |-> events[i].accession]

\* The feed arrives: the rest of poll_once, the queueing, up to the sleep.
PollOk ==
    /\ wpc = "polling"
    /\ \E r \in PollResults :
        /\ r.from = seen
        /\ seen' = r.to.seen
        /\ queue' = PutAll(queue, r.to.events)
        /\ enqueued' = enqueued \o AccessionsOf(
                SubSeq(PutAll(queue, r.to.events), Len(queue) + 1,
                       Len(PutAll(queue, r.to.events))))
        /\ lastEvents' = r.to.events
    /\ cycle' = "ok"
    /\ wpc' = "sleeping"
    /\ UNCHANGED <<running, stored, lastFeed, seenBefore, stopBeforeRun,
                   stopDuringRun, pollAfterStop>>
    /\ UNCHANGED nonWatcherVars

\* The request, raise_for_status or the parse raises.
PollFail ==
    /\ wpc = "polling"
    /\ cycle' = "failed"
    /\ wpc' = AfterPollError
    /\ UNCHANGED <<running, seen, queue, stored, lastFeed, seenBefore,
                   lastEvents, stopBeforeRun, stopDuringRun, pollAfterStop>>
    /\ UNCHANGED enqueued
    /\ UNCHANGED nonWatcherVars

\* The sleep of the cycle is over: the loop condition.
SleepDone ==
    /\ wpc = "sleeping"
    /\ IF LoopContinues
       THEN wpc' = "polling" /\ NotePoll
       ELSE wpc' = "returned" /\ UNCHANGED pollAfterStop
    /\ UNCHANGED <<running, seen, queue, stored, lastFeed, seenBefore,
                   lastEvents, cycle, stopBeforeRun, stopDuringRun>>
    /\ UNCHANGED enqueued
    /\ UNCHANGED nonWatcherVars

\* stop(), called from another flow at any time.
Stop ==
    /\ running' = FALSE
    /\ stopBeforeRun' = (stopBeforeRun \/ wpc = "new")
    /\ stopDuringRun' = IF stopDuringRun = "no" /\ wpc \in {"polling", "sleeping"}
                        THEN wpc ELSE stopDuringRun
    /\ UNCHANGED <<wpc, seen, queue, stored, lastFeed, seenBefore, lastEvents,
                   cycle, pollAfterStop>>
    /\ UNCHANGED enqueued
    /\ UNCHANGED nonWatcherVars

\* process_events: queue.get()
Consume ==
    /\ queue # <<>>
    /\ queue' = Tail(queue)
    /\ UNCHANGED <<wpc, running, seen, stored, lastFeed, seenBefore,
                   lastEvents, cycle, stopBeforeRun, stopDuringRun,
                   pollAfterStop>>
    /\ UNCHANGED enqueued
    /\ UNCHANGED nonWatcherVars

WatcherStart ==
    /\ wpc = "new"
    /\ running = FALSE
    /\ seen = {}
    /\ queue = <<>>
    /\ stored \in SUBSET Accessions
    /\ lastFeed = <<>>
    /\ seenBefore = {}
    /\ lastEvents = <<>>
    /\ cycle = "none"
    /\ stopBeforeRun = FALSE
    /\ stopDuringRun = "no"
    /\ pollAfterStop = "no"
    /\ enqueued = <<>>

\* The watcher as the other parts leave it.
WatcherUnused ==
    /\ wpc = "new"
    /\ running = FALSE
    /\ seen = {}
    /\ queue = <<>>
    /\ stored = {}
    /\ lastFeed = <<>>
    /\ seenBefore = {}
    /\ lastEvents = <<>>
    /\ cycle = "none"
    /\ stopBeforeRun = FALSE
    /\ stopDuringRun = "no"
    /\ pollAfterStop = "no"
    /\ enqueued = <<>>

\* A call of poll_once that returns, with what it was given and what it
\* returned.
PollOnceCall ==
    /\ cycle = "none"
    /\ seen' = PollOnce(lastFeed).seen
    /\ lastEvents' = PollOnce(lastFeed).events
    /\ seenBefore' = seen
    /\ cycle' = "ok"
    /\ UNCHANGED <<wpc, running, queue, stored, lastFeed, stopBeforeRun,
                   stopDuringRun, pollAfterStop>>
    /\ UNCHANGED enqueued
    /\ UNCHANGED nonWatcherVars

\* A call of poll_once that raises, at the request or at raise_for_status.
PollOnceRaise ==
    /\ cycle = "none"
    /\ cycle' = "failed"
    /\ UNCHANGED <<wpc, running, seen, queue, stored, lastFeed, seenBefore,
                   lastEvents, stopBeforeRun, stopDuringRun, pollAfterStop>>
    /\ UNCHANGED enqueued
    /\ UNCHANGED nonWatcherVars

\* A call of poll_once: the seen set is any set of accessions, the feed
\* (lastFeed) any feed.
PollStart ==
    /\ wpc = "polling"
    /\ running = TRUE
    /\ seen \in SUBSET Accessions
    /\ queue = <<>>
    /\ stored = {}
    /\ lastFeed \in Feeds
    /\ seenBefore = seen
    /\ lastEvents = <<>>
    /\ cycle = "none"
    /\ stopBeforeRun = FALSE
    /\ stopDuringRun = "no"
    /\ pollAfterStop = "no"
    /\ enqueued = <<>>

NextPoll ==
    \/ PollOnceCall
    \/ PollOnceRaise

NextWatcher ==
    \/ RunStart
    \/ PollOk
    \/ PollFail
    \/ SleepDone
    \/ Stop
    \/ Consume

----------------------------------------------------------------------------
(* Part III: run_pipeline and the storage *)

\* Bound: the number of runs of run_pipeline.
MaxRuns == 3

\* The companies the runs are for.
PipeTickers == {"AAPL", "MSFT"}

\* Mutant of FilingExists: the check never finds the filing.
FilingExistsNever(accession) == FALSE

\* db.filing_exists(accession)
FilingExists(accession) == filings[accession] > 0

\* The run ends, by a return or through the except clause.
RunEnds == rpc' = "idle"

\* A company files a new 10-K: the archive lists it as the latest.
Publish(tk) ==
    /\ rpc = "idle"
    /\ \E a \in Accessions : a # latest[tk] /\ latest' = [latest EXCEPT ![tk] = a]
    /\ UNCHANGED <<filings, briefs, runs, rpc, rTicker, rAcc, rFetches, rLLM,
                   rWrites, rChecked, rInStorage, rDocUrl, rCaught>>
    /\ UNCHANGED nonPipeVars

\* run_pipeline(ticker, cik, ...) is entered and runs up to the request for
\* the submissions.
BeginRun(tk) ==
    /\ rpc = "idle"
    /\ runs < MaxRuns
    /\ runs' = runs + 1
    /\ rTicker' = tk
    /\ rAcc' = None
    /\ rFetches' = {"submissions"}
    /\ rLLM' = {}
    /\ rWrites' = {}
    /\ rChecked' = FALSE
    /\ rInStorage' = FALSE
    /\ rDocUrl' = "unset"
    /\ rCaught' = FALSE
    /\ rpc' = "accession"
    /\ UNCHANGED <<filings, briefs, latest>>

\* run_pipeline is called, by the loop of run_backfill or by process_events
\* for an event of the queue.
RunPipeline(tk) ==
    /\ BeginRun(tk)
    /\ UNCHANGED nonPipeVars

\* get_latest_10k_accession ends: it raises, finds no 10-K, or gives the
\* accession, which is checked against the storage.
AccessionDone ==
    /\ rpc = "accession"
    /\ \/ /\ RunEnds
          /\ \E caught \in BOOLEAN :
                /\ ~caught => latest[rTicker] = None
                /\ rCaught' = caught
          /\ UNCHANGED <<rAcc, rFetches, rChecked, rInStorage>>
       \/ /\ latest[rTicker] # None
          /\ rAcc' = latest[rTicker]
          /\ rChecked' = TRUE
          /\ rInStorage' = (filings[latest[rTicker]] > 0)
          /\ IF FilingExists(latest[rTicker])
             THEN RunEnds /\ UNCHANGED rFetches
             ELSE /\ rpc' = "gather"
                  /\ rFetches' = rFetches \cup {"xbrl", "index"}
          /\ UNCHANGED rCaught
    /\ UNCHANGED <<filings, briefs, latest, runs, rTicker, rLLM, rWrites,
                   rDocUrl>>
    /\ UNCHANGED nonPipeVars

\* What get_filing_document_url returns.
DocUrls == {None, "url"}

\* Mutant of DocUrlMissing: a missing URL is not noticed.
DocUrlMissingNever(url) == FALSE

\* if not doc_url
DocUrlMissing(url) == url = None

\* The gather of get_xbrl_facts and get_filing_document_url ends:
\* get_xbrl_facts raises, or both return and there is no document URL, or
\* the download is requested.
GatherDone ==
    /\ rpc = "gather"
    /\ \/ RunEnds /\ rCaught' = TRUE /\ UNCHANGED <<rFetches, rDocUrl>>
       \/ \E url \in DocUrls :
             /\ rDocUrl' = url
             /\ IF DocUrlMissing(url)
                THEN RunEnds /\ UNCHANGED rFetches
                ELSE rpc' = "download" /\ rFetches' = rFetches \cup {"document"}
             /\ UNCHANGED rCaught
    /\ UNCHANGED <<filings, briefs, latest, runs, rTicker, rAcc, rLLM, rWrites,
                   rChecked, rInStorage>>
    /\ UNCHANGED nonPipeVars

\* db.save_filing: the INSERT, refused for an accession that has a row.
SaveFilingRaises(accession) == filings[accession] > 0

\* fetch_filing_html ends: it or the parser raises, or the filing is saved
\* (the commit of save_filing stands whatever follows) and then a
\* save_section raises, or the sections are saved as well and the analyses
\* are requested.
DownloadDone ==
    /\ rpc = "download"
    /\ \/ RunEnds /\ rCaught' = TRUE /\ UNCHANGED <<filings, rWrites, rLLM>>
       \/ /\ SaveFilingRaises(rAcc)
          /\ RunEnds /\ rCaught' = TRUE /\ UNCHANGED <<filings, rWrites, rLLM>>
       \/ /\ ~SaveFilingRaises(rAcc)
          /\ filings' = [filings EXCEPT ![rAcc] = @ + 1]
          /\ \E sections, saved \in BOOLEAN :
               /\ ~saved => sections
               /\ rWrites' = rWrites \cup {"filings"}
                     \cup (IF sections /\ saved THEN {"filing_sections"} ELSE {})
               /\ IF saved
                  THEN /\ rLLM' = rLLM \cup
                            (IF sections THEN {"analyze_section"} ELSE {})
                       /\ rpc' = "analyze"
                       /\ UNCHANGED rCaught
                  ELSE RunEnds /\ rCaught' = TRUE /\ UNCHANGED rLLM
    /\ UNCHANGED <<briefs, latest, runs, rTicker, rAcc, rFetches, rChecked,
                   rInStorage, rDocUrl>>
    /\ UNCHANGED nonPipeVars

\* The gather of the analyses ends: the results are saved and the brief is
\* requested, or a save_analysis raises.
AnalyzeDone ==
    /\ rpc = "analyze"
    /\ \/ /\ "analyze_section" \in rLLM
          /\ RunEnds /\ rCaught' = TRUE /\ UNCHANGED <<rWrites, rLLM>>
       \/ /\ rWrites' = rWrites \cup
                (IF "analyze_section" \in rLLM THEN {"analyses"} ELSE {})
          /\ rLLM' = rLLM \cup {"generate_investment_brief"}
          /\ rpc' = "brief"
          /\ UNCHANGED rCaught
    /\ UNCHANGED <<filings, briefs, latest, runs, rTicker, rAcc, rFetches,
                   rChecked, rInStorage, rDocUrl>>
    /\ UNCHANGED nonPipeVars

\* generate_investment_brief ends: it raises, or the brief, an error brief
\* included, is saved.
BriefDone ==
    /\ rpc = "brief"
    /\ RunEnds
    /\ \/ rCaught' = TRUE /\ UNCHANGED <<briefs, rWrites>>
       \/ /\ briefs' = [briefs EXCEPT ![rAcc] = @ + 1]
          /\ rWrites' = rWrites \cup {"investment_briefs"}
          /\ UNCHANGED rCaught
    /\ UNCHANGED <<filings, latest, runs, rTicker, rAcc, rFetches, rLLM,
                   rChecked, rInStorage, rDocUrl>>
    /\ UNCHANGED nonPipeVars

PipeStart ==
    /\ filings = [a \in Accessions |-> 0]
    /\ briefs = [a \in Accessions |-> 0]
    /\ latest \in [PipeTickers -> Accessions \cup {None}]
    /\ runs = 0
    /\ rpc = "idle"
    /\ rTicker = None
    /\ rAcc = None
    /\ rFetches = {}
    /\ rLLM = {}
    /\ rWrites = {}
    /\ rChecked = FALSE
    /\ rInStorage = FALSE
    /\ rDocUrl = "unset"
    /\ rCaught = FALSE

\* The pipeline as the other parts leave it.
PipeUnused ==
    /\ filings = [a \in Accessions |-> 0]
    /\ briefs = [a \in Accessions |-> 0]
    /\ latest = [tk \in PipeTickers |-> None]
    /\ runs = 0
    /\ rpc = "idle"
    /\ rTicker = None
    /\ rAcc = None
    /\ rFetches = {}
    /\ rLLM = {}
    /\ rWrites = {}
    /\ rChecked = FALSE
    /\ rInStorage = FALSE
    /\ rDocUrl = "unset"
    /\ rCaught = FALSE

NextPipeline ==
    \/ \E tk \in PipeTickers : Publish(tk)
    \/ \E tk \in PipeTickers : RunPipeline(tk)
    \/ AccessionDone
    \/ GatherDone
    \/ DownloadDone
    \/ AnalyzeDone
    \/ BriefDone

----------------------------------------------------------------------------
(* Part IV: GroqAnalyzer -- the text of a response and its JSON *)

\* Bound: the length of the arbitrary response texts.
MaxTextLen == 2

\* Bound: the number of members of the JSON objects.
MaxMembers == 2

\* A text is a sequence of tokens: the braces and the comma of JSON, two
\* members ("a" is the text "a": "1", "b" is "b": "2"), a JSON value that is
\* not an object ("v"), a word of prose ("w"), a code fence ("fence"), the tag
\* json and white space ("ws").
Tokens == {"{", "}", ",", "a", "b", "v", "w", "fence", "json", "ws"}

Members == {"a", "b"}

\* The value of a member.
MemberValue(k) == IF k = "a" THEN "1" ELSE "2"

RECURSIVE LStripWs(_)
LStripWs(t) == IF t # <<>> /\ Head(t) = "ws" THEN LStripWs(Tail(t)) ELSE t

RECURSIVE RStripWs(_)
RStripWs(t) ==
    IF t # <<>> /\ t[Len(t)] = "ws" THEN RStripWs(SubSeq(t, 1, Len(t) - 1)) ELSE t

\* str.strip()
Strip(t) == RStripWs(LStripWs(t))

\* The white space JSON allows between its tokens is skipped.
SkipWs(t) == SelectSeq(t, LAMBDA x : x # "ws")

\* The text, white space skipped, is an object: its members between braces,
\* separated by commas.
IsObjectText(u) ==
    /\ Len(u) >= 2
    /\ u[1] = "{"
    /\ u[Len(u)] = "}"
    /\ LET m == SubSeq(u, 2, Len(u) - 1)
       IN  \/ m = <<>>
           \/ /\ Len(m) % 2 = 1
              /\ \A i \in 1..Len(m) :
                    IF i % 2 = 1 THEN m[i] \in Members ELSE m[i] = ","

JSONDecodeError == [kind |-> "JSONDecodeError"]

\* json.loads: a dict for an object, the value for another JSON value, or
\* JSONDecodeError.
JsonLoads(t) ==
    LET u == SkipWs(t)
    IN  IF IsObjectText(u)
        THEN [kind |-> "dict",
              dict |-> [k \in {u[i] : i \in 2..(Len(u) - 1)} \ {","}
                          |-> MemberValue(k)]]
        ELSE IF u = <<"v">> THEN [kind |-> "value"]
        ELSE JSONDecodeError

\* fence_pattern.match(cleaned): ^```(?:json)?\s*\n?(.*?)\n?\s*```$
FenceMatches(t) == Len(t) >= 2 /\ t[1] = "fence" /\ t[Len(t)] = "fence"

\* match.group(1).strip()
FenceGroup(t) ==
    LET inner == SubSeq(t, 2, Len(t) - 1)
    IN  Strip(IF inner # <<>> /\ inner[1] = "json" THEN Tail(inner) ELSE inner)

\* Mutant of BraceSpan: no fallback.
BraceSpanNone(t) == <<>>

\* re.search(r"\{.*\}", cleaned, re.DOTALL): from the first "{" to the last
\* "}", or the empty text for no match.
BraceSpan(t) ==
    LET opens == {i \in 1..Len(t) : t[i] = "{"}
        closes == {i \in 1..Len(t) : t[i] = "}"}
    IN  IF opens = {} \/ closes = {} THEN <<>>
        ELSE LET first == CHOOSE i \in opens : \A j \in opens : i <= j
                 last == CHOOSE i \in closes : \A j \in closes : j <= i
             IN  IF first < last THEN SubSeq(t, first, last) ELSE <<>>

ValueError == [kind |-> "ValueError"]

\* GroqAnalyzer._parse_json_response
ParseJsonResponse(text) ==
    LET stripped == Strip(text)
        cleaned == IF FenceMatches(stripped) THEN FenceGroup(stripped)
                   ELSE stripped
    IN  IF JsonLoads(cleaned) # JSONDecodeError THEN JsonLoads(cleaned)
        ELSE IF BraceSpan(cleaned) # <<>>
                  /\ JsonLoads(BraceSpan(cleaned)) # JSONDecodeError
        THEN JsonLoads(BraceSpan(cleaned))
        ELSE ValueError

----------------------------------------------------------------------------
(* Part IV: GroqAnalyzer -- analyze_section and generate_investment_brief *)

\* range(3)
GroqAttempts == 3

\* config.groq_model
Model == "llama-3.3-70b-versatile"

\* Mutant of SectionPrompts: every section has a template.
SectionPromptsAll ==
    {"business", "risk_factors", "mda", "market_risk", "financials"}

\* The keys of SECTION_PROMPTS.
SectionPrompts == {"business", "risk_factors", "mda"}

\* The section names the parser knows: market_risk and financials have no
\* prompt template.
SectionNames == SectionPrompts \cup {"market_risk", "financials"}

RECURSIVE Join(_)
Join(ms) == IF Len(ms) <= 1 THEN ms ELSE <<Head(ms), ",">> \o Join(Tail(ms))

\* The texts of the JSON objects, with and without white space inside.
ObjectTexts ==
    { <<"{">> \o pad \o Join(ms) \o <<"}">> :
        ms \in UNION { [1..n -> Members] : n \in 0..MaxMembers },
        pad \in {<<>>, <<"ws">>} }

Wraps ==
    {"bare", "padded", "fence", "fence_json", "fence_tight",
     "fence_json_tight", "prose_before", "prose_after", "prose_around",
     "prose_fence"}

\* The text of an object as a model writes it: bare, in a code fence with
\* or without the tag json, or within prose.
Wrap(kind, obj) ==
    CASE kind = "bare" -> obj
      [] kind = "padded" -> <<"ws">> \o obj \o <<"ws">>
      [] kind = "fence" -> <<"fence", "ws">> \o obj \o <<"ws", "fence">>
      [] kind = "fence_json" ->
            <<"fence", "json", "ws">> \o obj \o <<"ws", "fence">>
      [] kind = "fence_tight" -> <<"fence">> \o obj \o <<"fence">>
      [] kind = "fence_json_tight" -> <<"fence", "json">> \o obj \o <<"fence">>
      [] kind = "prose_before" -> <<"w", "ws">> \o obj
      [] kind = "prose_after" -> obj \o <<"ws", "w">>
      [] kind = "prose_around" -> <<"w", "ws">> \o obj \o <<"ws", "w">>
      [] kind = "prose_fence" ->
            <<"w", "ws", "fence", "json", "ws">> \o obj \o <<"ws", "fence">>

\* The texts a call can return: the objects in every wrapping, every short
\* text, a fenced value that is not an object, and two objects in prose.
ResponseTexts ==
    { Wrap(k, o) : k \in Wraps, o \in ObjectTexts }
    \cup UNION { [1..n -> Tokens] : n \in 0..MaxTextLen }
    \cup { <<"fence", "json", "ws", "v", "ws", "fence">>,
           <<"w", "ws", "v">>,
           <<"{", "a", "}", "w", "{", "b", "}">> }

\* The _section and _model tags of a result.
Tags(fn, section) ==
    IF fn = "analyze_section"
    THEN ("_section" :> section) @@ ("_model" :> Model)
    ELSE ("_model" :> Model)

\* d with the keys of e set: d[k] = v for each k, v of e.
SetKeys(d, e) ==
    [k \in (DOMAIN d) \cup (DOMAIN e) |-> IF k \in DOMAIN e THEN e[k] ELSE d[k]]

\* Mutant of ErrorResult: the description is lost.
ErrorResultExhausted(fn, section, description) ==
    SetKeys(("error" :> "max_retries_exceeded"), Tags(fn, section))

\* The error dict of the except Exception clause.
ErrorResult(fn, section, description) ==
    SetKeys(("error" :> description), Tags(fn, section))

\* The error dict of the except ValueError clause.
ParseFailed(fn, section, rawText) ==
    SetKeys(("error" :> "parse_failed") @@ ("raw_text" :> rawText),
            Tags(fn, section))

\* The dict after the loop.
MaxRetriesExceeded(fn, section) ==
    SetKeys(("error" :> "max_retries_exceeded"), Tags(fn, section))

\* The dict for a section without prompt template.
NoPromptTemplate == ("error" :> "No prompt template for section")

\* From raw_text to the return: the parse, the tags set on its result (an
\* item assignment, a TypeError for what is not a dict), and the two except
\* clauses.
HandleResponse(fn, section, rawText) ==
    LET parsed == ParseJsonResponse(rawText)
    IN  IF parsed = ValueError THEN ParseFailed(fn, section, rawText)
        ELSE IF parsed.kind = "dict"
        THEN SetKeys(parsed.dict, Tags(fn, section))
        ELSE ErrorResult(fn, section, "TypeError")

\* Mutant of Wait: the backoff starts at one second.
WaitFromOne(a) == 2 ^ a

\* wait = 2 ** (attempt + 1)
Wait(a) == 2 ^ (a + 1)

NoResult == <<>>

\* The method is called: an unknown section is refused, else the first call
\* to the endpoint is made.
AnalyzerCall ==
    /\ gPc = "new"
    /\ IF gFn = "analyze_section" /\ gSection \notin SectionPrompts
       THEN gPc' = "done" /\ gResult' = NoPromptTemplate
       ELSE gPc' = "calling" /\ UNCHANGED gResult
    /\ UNCHANGED <<gFn, gSection, gAttempt, gOuts, gSleeps, gText,
                   pObject, pWrap, pOut>>
    /\ UNCHANGED nonGroqVars

\* The call raises RateLimitError: the backoff sleep begins.
RateLimited ==
    /\ gPc = "calling"
    /\ gOuts' = Append(gOuts, "rate_limit")
    /\ gSleeps' = Append(gSleeps, Wait(gAttempt))
    /\ gPc' = "sleeping"
    /\ UNCHANGED <<gFn, gSection, gAttempt, gText, gResult, pObject, pWrap, pOut>>
    /\ UNCHANGED nonGroqVars

\* The sleep is over: the next attempt is made, or the loop is exhausted.
SleepOver ==
    /\ gPc = "sleeping"
    /\ IF gAttempt + 1 < GroqAttempts
       THEN gAttempt' = gAttempt + 1 /\ gPc' = "calling" /\ UNCHANGED gResult
       ELSE /\ gPc' = "done"
            /\ gResult' = MaxRetriesExceeded(gFn, gSection)
            /\ UNCHANGED gAttempt
    /\ UNCHANGED <<gFn, gSection, gOuts, gSleeps, gText, pObject, pWrap, pOut>>
    /\ UNCHANGED nonGroqVars

\* The call raises another exception.
CallFails ==
    /\ gPc = "calling"
    /\ gOuts' = Append(gOuts, "error")
    /\ gResult' = ErrorResult(gFn, gSection, "APIError")
    /\ gPc' = "done"
    /\ UNCHANGED <<gFn, gSection, gAttempt, gSleeps, gText, pObject, pWrap, pOut>>
    /\ UNCHANGED nonGroqVars

\* The call returns a response.
CallReturns ==
    /\ gPc = "calling"
    /\ \E rawText \in ResponseTexts :
        /\ gText' = rawText
        /\ gResult' = HandleResponse(gFn, gSection, rawText)
    /\ gOuts' = Append(gOuts, "ok")
    /\ gPc' = "done"
    /\ UNCHANGED <<gFn, gSection, gAttempt, gSleeps, pObject, pWrap, pOut>>
    /\ UNCHANGED nonGroqVars

Pending == [kind |-> "pending"]

\* _parse_json_response is called on the wrapped object.
ParseCall ==
    /\ pOut = Pending
    /\ pOut' = ParseJsonResponse(Wrap(pWrap, pObject))
    /\ UNCHANGED <<gFn, gSection, gPc, gAttempt, gOuts, gSleeps, gText,
                   gResult, pObject, pWrap>>
    /\ UNCHANGED nonGroqVars

\* A call of analyze_section for any section name, or of
\* generate_investment_brief.
GroqStart ==
    /\ \/ gFn = "analyze_section" /\ gSection \in SectionNames
       \/ gFn = "generate_investment_brief" /\ gSection = None
    /\ gPc = "new"
    /\ gAttempt = 0
    /\ gOuts = <<>>
    /\ gSleeps = <<>>
    /\ gText = <<>>
    /\ gResult = NoResult
    /\ pObject = <<>>
    /\ pWrap = "bare"
    /\ pOut = Pending

\* A call of _parse_json_response for any object and any wrapping.
ParseStart ==
    /\ gFn = None
    /\ gSection = None
    /\ gPc = "done"
    /\ gAttempt = 0
    /\ gOuts = <<>>
    /\ gSleeps = <<>>
    /\ gText = <<>>
    /\ gResult = NoResult
    /\ pObject \in ObjectTexts
    /\ pWrap \in Wraps
    /\ pOut = Pending

\* The analyzer as the other parts leave it.
GroqUnused ==
    /\ gFn = None
    /\ gSection = None
    /\ gPc = "done"
    /\ gAttempt = 0
    /\ gOuts = <<>>
    /\ gSleeps = <<>>
    /\ gText = <<>>
    /\ gResult = NoResult
    /\ pObject = <<>>
    /\ pWrap = "bare"
    /\ pOut = Pending

NextGroq ==
    \/ AnalyzerCall
    \/ RateLimited
    \/ SleepOver
    \/ CallFails
    \/ CallReturns

NextParse == ParseCall

----------------------------------------------------------------------------
(* Part V: the analyses of one filing and the synthesis of its brief *)

\* sections_to_analyze
SectionsToAnalyze == {"business", "risk_factors", "mda"}

\* A key of a result dict is the sequence of its pieces, so that its first
\* character can be tested.
SectionKey == <<"_", "section">>
ModelKey == <<"_", "model">>
ErrorKey == <<"error">>
RawTextKey == <<"raw", "_", "text">>
SummaryKey == <<"one", "_", "line", "_", "summary">>
NoteKey == <<"_", "note">>

\* The tags analyze_section sets on every dict it returns from the loop.
SectionTags(section) == (SectionKey :> section) @@ (ModelKey :> Model)

\* The dicts analyze_section can return for a section: an object of the
\* model, one with a key of the model's own that begins with "_", the
\* error parse_failed, another error, max_retries_exceeded.
AnalysisResults(section) ==
    { SectionTags(section) @@ (SummaryKey :> "text"),
      SectionTags(section) @@ (SummaryKey :> "text") @@ (NoteKey :> "text"),
      SectionTags(section) @@ (ErrorKey :> "parse_failed")
          @@ (RawTextKey :> "text"),
      SectionTags(section) @@ (ErrorKey :> "APIError"),
      SectionTags(section) @@ (ErrorKey :> "max_retries_exceeded") }

\* Mutant of StartsWithUnderscore: no key is a bookkeeping key.
StartsWithNothing(k) == FALSE

\* k.startswith("_")
StartsWithUnderscore(k) == k # <<>> /\ k[1] = "_"

\* clean = {k: v for k, v in analysis.items() if not k.startswith("_")}
Clean(analysis) ==
    [k \in {j \in DOMAIN analysis : ~StartsWithUnderscore(j)} |-> analysis[k]]

\* analyses_clean
AnalysesClean(arg) == [name \in DOMAIN arg |-> Clean(arg[name])]

\* Mutant of Gathered: the first analysis to return ends the wait.
GatheredFirst ==
    \/ \E name \in SectionsToAnalyze : aPc[name] = "returned"
    \/ \A name \in SectionsToAnalyze : aPc[name] = "skipped"

\* await asyncio.gather(*analysis_tasks): every task has returned.
Gathered == \A name \in SectionsToAnalyze : aPc[name] # "inflight"

\* result.get("_section", "unknown")
SectionOf(result) ==
    IF SectionKey \in DOMAIN result THEN result[SectionKey] ELSE "unknown"

\* What generate_investment_brief returns: a brief, or a dict with the key
\* error.
BriefResults == {"brief", "error_brief"}

\* Step 4 and the loop over sections_to_analyze: the filing and its sections
\* are saved, an analysis is started for each section that has text, and
\* the gather is awaited; or save_filing or a save_section raises.
StartAnalyses ==
    /\ fPc = "parsed"
    /\ \/ /\ aPc' = [name \in SectionsToAnalyze |->
                       IF name \in validated THEN "inflight" ELSE "skipped"]
          /\ fPc' = "gather"
          /\ UNCHANGED fRaised
       \/ /\ fPc' = "end"
          /\ fRaised' = TRUE
          /\ UNCHANGED aPc
    /\ UNCHANGED <<validated, aResult, analyses, sPc, sArg, sEmbedded,
                   sInflightAtCall, sCalls, sResult, sBrief>>
    /\ UNCHANGED nonSynthVars

\* An analysis returns its dict.
AnalysisReturns(name) ==
    /\ aPc[name] = "inflight"
    /\ aPc' = [aPc EXCEPT ![name] = "returned"]
    /\ \E result \in AnalysisResults(name) :
          aResult' = [aResult EXCEPT ![name] = result]
    /\ UNCHANGED <<validated, fPc, analyses, sPc, sArg, sEmbedded,
                   sInflightAtCall, sCalls, sResult, sBrief, fRaised>>
    /\ UNCHANGED nonSynthVars

\* The gather returns: the results are collected in analyses, keyed by
\* their section, and saved; or a save_analysis raises.
CollectResults ==
    /\ fPc = "gather"
    /\ Gathered
    /\ LET returned == {name \in SectionsToAnalyze : aPc[name] = "returned"}
       IN  \/ /\ analyses' =
                   [key \in {SectionOf(aResult[name]) : name \in returned} |->
                      aResult[CHOOSE name \in returned :
                                  SectionOf(aResult[name]) = key]]
              /\ fPc' = "collected"
              /\ UNCHANGED fRaised
           \/ /\ returned # {}
              /\ fPc' = "end"
              /\ fRaised' = TRUE
              /\ UNCHANGED analyses
    /\ UNCHANGED <<validated, aPc, aResult, sPc, sArg, sEmbedded,
                   sInflightAtCall, sCalls, sResult, sBrief>>
    /\ UNCHANGED nonSynthVars

\* Mutant of Synthesizes: no brief is asked for unless an analysis succeeded.
SynthesizesIfAnyOk(arg) ==
    \E name \in DOMAIN arg : ErrorKey \notin DOMAIN arg[name]

\* Step 6 follows the collection of the results without any condition on
\* analyses.
Synthesizes(arg) == TRUE

\* generate_investment_brief is called with analyses, up to its call of the
\* endpoint: the prompt is built from analyses_clean.
SynthesisCall ==
    /\ fPc = "collected"
    /\ sPc = "none"
    /\ IF Synthesizes(analyses)
       THEN /\ sPc' = "inflight"
            /\ sArg' = analyses
            /\ sEmbedded' = AnalysesClean(analyses)
            /\ sInflightAtCall' =
                   {name \in SectionsToAnalyze : aPc[name] = "inflight"}
            /\ sCalls' = sCalls + 1
            /\ fPc' = "brief"
       ELSE /\ fPc' = "end"
            /\ UNCHANGED <<sPc, sArg, sEmbedded, sInflightAtCall, sCalls>>
    /\ UNCHANGED <<validated, aPc, aResult, analyses, sResult, sBrief, fRaised>>
    /\ UNCHANGED nonSynthVars

\* generate_investment_brief returns its dict and db.save_brief is called
\* with it, on either branch of the test for the key error; the save
\* records it or raises.
SynthesisReturns ==
    /\ sPc = "inflight"
    /\ sPc' = "done"
    /\ fPc' = "end"
    /\ \E result \in BriefResults, saved \in BOOLEAN :
          /\ sResult' = result
          /\ sBrief' = IF saved THEN result ELSE "none"
          /\ fRaised' = ~saved
    /\ UNCHANGED <<validated, aPc, aResult, analyses, sArg, sEmbedded,
                   sInflightAtCall, sCalls>>
    /\ UNCHANGED nonSynthVars

\* A filing is parsed: any of the sections may have text.
SynthStart ==
    /\ validated \in SUBSET SectionNames
    /\ fPc = "parsed"
    /\ aPc = [name \in SectionsToAnalyze |-> "skipped"]
    /\ aResult = [name \in SectionsToAnalyze |-> NoResult]
    /\ analyses = <<>>
    /\ sPc = "none"
    /\ sArg = <<>>
    /\ sEmbedded = <<>>
    /\ sInflightAtCall = {}
    /\ sCalls = 0
    /\ sResult = "none"
    /\ sBrief = "none"
    /\ fRaised = FALSE

\* Steps 5 and 6 as the other parts leave them.
SynthUnused ==
    /\ validated = {}
    /\ fPc = "end"
    /\ aPc = [name \in SectionsToAnalyze |-> "skipped"]
    /\ aResult = [name \in SectionsToAnalyze |-> NoResult]
    /\ analyses = <<>>
    /\ sPc = "none"
    /\ sArg = <<>>
    /\ sEmbedded = <<>>
    /\ sInflightAtCall = {}
    /\ sCalls = 0
    /\ sResult = "none"
    /\ sBrief = "none"
    /\ fRaised = FALSE

NextSynth ==
    \/ StartAnalyses
    \/ \E name \in SectionsToAnalyze : AnalysisReturns(name)
    \/ CollectResults
    \/ SynthesisCall
    \/ SynthesisReturns

----------------------------------------------------------------------------
(* Part VI: run_backfill and the consumer of run_watcher *)

\* Bound: the number of events the watcher puts on the queue.
MaxEvents == 3

\* What run_pipeline returns: a brief, an error brief (the brief dict with
\* the key error), or None.
PipelineReturns == {"brief", "error_brief", "None"}

\* The steps of run_pipeline at which an exception can be raised.
PipelineSteps == {"fetch", "parse", "save", "analyze", "synthesize"}

\* Mutant of ExceptClause: the exception leaves run_pipeline and the loop.
ExceptClauseMissing == "aborted"

\* except Exception in run_pipeline, and behind it the one in the loop of
\* run_backfill: None is the result and the loop goes on.
ExceptClause == "loop"

\* The loop of run_backfill calls run_pipeline for the next entry of the
\* watchlist, or, the watchlist exhausted, goes on to the summary.
BackfillNext ==
    /\ bPc = "loop"
    /\ IF bIndex <= Len(Watchlist)
       THEN /\ bPc' = "running"
            /\ bInvoked' = Append(bInvoked, Watchlist[bIndex].ticker)
       ELSE /\ bPc' = "done"
            /\ UNCHANGED bInvoked
    /\ UNCHANGED <<bIndex, bResults, bCaught, cQueue, cCur, cActive, cEnq,
                   cDeq, cEnded, cPutWhileBusy>>
    /\ UNCHANGED nonModeVars

\* run_pipeline returns a value.
BackfillRunReturns ==
    /\ bPc = "running"
    /\ \E value \in PipelineReturns :
          bResults' = [bResults EXCEPT ![Watchlist[bIndex].ticker] = value]
    /\ bIndex' = bIndex + 1
    /\ bPc' = "loop"
    /\ UNCHANGED <<bInvoked, bCaught, cQueue, cCur, cActive, cEnq, cDeq,
                   cEnded, cPutWhileBusy>>
    /\ UNCHANGED nonModeVars

\* A step of run_pipeline raises an exception.
BackfillRunRaises(step) ==
    /\ bPc = "running"
    /\ bPc' = ExceptClause
    /\ IF ExceptClause = "loop"
       THEN /\ bResults' = [bResults EXCEPT ![Watchlist[bIndex].ticker] = "None"]
            /\ bIndex' = bIndex + 1
       ELSE UNCHANGED <<bResults, bIndex>>
    /\ bCaught' = bCaught \cup {Watchlist[bIndex].ticker}
    /\ UNCHANGED <<bInvoked, cQueue, cCur, cActive, cEnq, cDeq, cEnded,
                   cPutWhileBusy>>
    /\ UNCHANGED nonModeVars

\* The events the watcher can put.
Events == { [ticker |-> tk, accession |-> a] : tk \in PipeTickers, a \in Accessions }

NoEvent == [ticker |-> None, accession |-> None]

\* Mutant of QueueGet: the newest event is taken.
QueueGetNewest(q) == [event |-> q[Len(q)], rest |-> SubSeq(q, 1, Len(q) - 1)]

\* queue.get() of an asyncio.Queue: the oldest event.
QueueGet(q) == [event |-> Head(q), rest |-> Tail(q)]

\* watcher.run(): await self.queue.put(filing)
WatcherPuts(e) ==
    /\ Len(cEnq) < MaxEvents
    /\ cQueue' = Append(cQueue, e)
    /\ cEnq' = Append(cEnq, e)
    /\ cPutWhileBusy' = (cPutWhileBusy \/ cActive > 0)
    /\ UNCHANGED <<bPc, bIndex, bInvoked, bResults, bCaught, cCur, cActive, cDeq,
                   cEnded>>
    /\ UNCHANGED nonModeVars

\* process_events: event = await queue.get()
GetEvent ==
    /\ cCur = NoEvent
    /\ cQueue # <<>>
    /\ cCur' = QueueGet(cQueue).event
    /\ cQueue' = QueueGet(cQueue).rest
    /\ cDeq' = Append(cDeq, QueueGet(cQueue).event)
    /\ cActive' = cActive + 1
    /\ UNCHANGED <<bPc, bIndex, bInvoked, bResults, bCaught, cEnq, cEnded,
                   cPutWhileBusy>>

\* process_events: queue.get() returns and run_pipeline is called.
ProcessGet ==
    /\ GetEvent
    /\ UNCHANGED nonModeVars

\* run_pipeline ends, with a value or with an exception that process_events
\* catches; queue.task_done() and the next turn of the loop.
ProcessRunEnds ==
    /\ cCur # NoEvent
    /\ cEnded' = Append(cEnded, cCur)
    /\ cCur' = NoEvent
    /\ cActive' = cActive - 1
    /\ UNCHANGED <<bPc, bIndex, bInvoked, bResults, bCaught, cQueue, cEnq,
                   cDeq, cPutWhileBusy>>
    /\ UNCHANGED nonModeVars

ConsumerIdle ==
    /\ cQueue = <<>>
    /\ cCur = NoEvent
    /\ cActive = 0
    /\ cEnq = <<>>
    /\ cDeq = <<>>
    /\ cEnded = <<>>
    /\ cPutWhileBusy = FALSE

BackfillIdle ==
    /\ bPc = "done"
    /\ bIndex = 1
    /\ bInvoked = <<>>
    /\ bResults = [i \in {} |-> "None"]
    /\ bCaught = {}

\* run_backfill at its loop, the configuration valid.
BackfillStart ==
    /\ bPc = "loop"
    /\ bIndex = 1
    /\ bInvoked = <<>>
    /\ bResults = [tk \in {Watchlist[i].ticker : i \in 1..Len(Watchlist)} |-> "unset"]
    /\ bCaught = {}
    /\ ConsumerIdle

\* run_watcher at its gather.
ConsumerStart == BackfillIdle /\ ConsumerIdle

\* The two modes as the other parts leave them.
ModeUnused == BackfillIdle /\ ConsumerIdle

NextBackfill ==
    \/ BackfillNext
    \/ BackfillRunReturns
    \/ \E step \in PipelineSteps : BackfillRunRaises(step)

NextConsumer ==
    \/ \E e \in Events : WatcherPuts(e)
    \/ ProcessGet
    \/ ProcessRunEnds

----------------------------------------------------------------------------
(* Part VII: EDGARClient -- the filing locator *)

\* Bound: the number of items of a JSON index.
MaxItems == 2

\* Bound: the number of anchors of an HTML index page.
MaxLinks == 2

\* Bound: the length of an array of the submissions document.
MaxFilings == 2

\* A key that a JSON object does not have.
Absent == <<"<absent>">>

\* str.lower(), on the characters the names of the model are written in.
Lower(c) ==
    CASE c = "R" -> "r"
      [] c = "H" -> "h"
      [] c = "T" -> "t"
      [] c = "M" -> "m"
      [] c = "I" -> "i"
      [] OTHER -> c

LowerSeq(s) == [i \in 1..Len(s) |-> Lower(s[i])]

\* str.endswith(suffix)
EndsWith(s, suffix) ==
    /\ Len(s) >= Len(suffix)
    /\ SubSeq(s, Len(s) - Len(suffix) + 1, Len(s)) = suffix

\* sub in s
Contains(s, sub) ==
    \E i \in 1..(Len(s) - Len(sub) + 1) : SubSeq(s, i, i + Len(sub) - 1) = sub

RECURSIVE BeforeFirstDot(_)
\* s.split(".")[0]
BeforeFirstDot(s) ==
    IF s = <<>> \/ Head(s) = "." THEN <<>>
    ELSE <<Head(s)>> \o BeforeFirstDot(Tail(s))

DotHtm == <<".", "h", "t", "m">>
DotHtml == <<".", "h", "t", "m", "l">>
IndexWord == <<"i", "n", "d", "e", "x">>

\* The file names of the model's indexes: ab.htm, aR.HTM, R2.htm, r2.htm,
\* index.html, ab.xml.
FileNames ==
    { <<"a", "b">> \o DotHtm,
      <<"a", "R", ".", "H", "T", "M">>,
      <<"R", "2">> \o DotHtm,
      <<"r", "2">> \o DotHtm,
      IndexWord \o DotHtml,
      <<"a", "b", ".", "x", "m", "l">> }

\* The size fields of the model's indexes: "9", "10" and "x".
SizeTexts == { <<"9">>, <<"1", "0">>, <<"x">> }

\* directory.item[] of a JSON index.
Items == [name : FileNames, size : SizeTexts]
ItemLists == UNION { [1..n -> Items] : n \in 0..MaxItems }

NoItem == [name |-> <<>>, size |-> Absent]

\* What _rate_limited_get raises.
FetchErrors == {"RuntimeError", "HTTPStatusError", "RequestError"}

\* The answers to the request for the JSON index: _rate_limited_get raises,
\* response.json() raises, or the document is read.
IndexAnswers ==
    { [kind |-> "raise", error |-> e, items |-> <<>>] : e \in FetchErrors }
    \cup { [kind |-> "malformed", error |-> "JSONDecodeError", items |-> <<>>] }
    \cup { [kind |-> "ok", error |-> None, items |-> items] : items \in ItemLists }

\* The condition of the comprehension that builds htm_files.
IsHtmFile(item) ==
    /\ \/ EndsWith(LowerSeq(item.name), DotHtm)
       \/ EndsWith(LowerSeq(item.name), DotHtml)
    /\ ~Contains(LowerSeq(item.name), IndexWord)
    /\ ~Contains(BeforeFirstDot(item.name), <<"R">>)

HtmFiles(items) == SelectSeq(items, IsHtmFile)

\* Mutant of HasCandidates: the candidates are never used.
HasCandidatesNever(files) == FALSE

\* if htm_files:
HasCandidates(files) == files # <<>>

\* x.get("size", "0")
GetSize(item) == IF item.size = Absent THEN <<"0">> ELSE item.size

DigitChars == <<"0", "1", "2", "3", "4", "5", "6", "7", "8", "9">>
DigitValue(c) == (CHOOSE i \in 1..10 : DigitChars[i] = c) - 1

\* int(s) accepts s.
IsNumeric(s) ==
    s # <<>> /\ \A i \in 1..Len(s) : \E j \in 1..10 : DigitChars[j] = s[i]

RECURSIVE IntOf(_)
\* int(s), for an s it accepts.
IntOf(s) ==
    IF s = <<>> THEN 0
    ELSE 10 * IntOf(SubSeq(s, 1, Len(s) - 1)) + DigitValue(s[Len(s)])

\* The key function of the sort raises ValueError.
KeyRaises(files) == \E i \in 1..Len(files) : ~IsNumeric(GetSize(files[i]))

\* key=lambda x: int(x.get("size", "0"))
SizeKey(item) == IntOf(GetSize(item))

\* Mutant of StaysAhead: the sort is ascending (reverse=True is missing).
StaysAheadAscending(e, x) == SizeKey(e) <= SizeKey(x)

\* reverse=True: e, which came before x in the list, stays ahead of it unless
\* x has the larger key (the sort is stable).
StaysAhead(e, x) == SizeKey(e) >= SizeKey(x)

InsertBySize(sorted, x) ==
    SelectSeq(sorted, LAMBDA e : StaysAhead(e, x))
        \o <<x>> \o SelectSeq(sorted, LAMBDA e : ~StaysAhead(e, x))

RECURSIVE SortBySize(_)
\* htm_files.sort(key=..., reverse=True)
SortBySize(files) ==
    IF files = <<>> THEN <<>>
    ELSE InsertBySize(SortBySize(SubSeq(files, 1, Len(files) - 1)),
                      files[Len(files)])

IndexUrl == "https://www.sec.gov/Archives/edgar/data/{cik}/{accession_nodash}/"
SecGov == "https://www.sec.gov"

\* An f-string of a prefix and a path.
Url(base, path) == [base |-> base, path |-> path]

\* return None
NoUrl == [base |-> None, path |-> <<>>]

\* No value yet.
UnsetUrl == [base |-> "unset", path |-> <<>>]

\* The try block of stage 1, up to its return or its exception.
Stage1(answer) ==
    IF answer.kind # "ok"
    THEN [out |-> "raised", error |-> answer.error, files |-> <<>>,
          primary |-> NoItem]
    ELSE LET files == HtmFiles(answer.items) IN
         IF ~HasCandidates(files)
         THEN [out |-> "none", error |-> None, files |-> files,
               primary |-> NoItem]
         ELSE IF KeyRaises(files)
              THEN [out |-> "raised", error |-> "ValueError", files |-> files,
                    primary |-> NoItem]
              ELSE [out |-> "returned", error |-> None, files |-> files,
                    primary |-> SortBySize(files)[1]]

\* The hrefs of the model's pages: /a.htm, b.html, Index.htm, a.pdf.
Hrefs ==
    { <<"/", "a">> \o DotHtm,
      <<"b">> \o DotHtml,
      <<"I", "n", "d", "e", "x">> \o DotHtm,
      <<"a", ".", "p", "d", "f">> }

\* An HTML index page: the values of its href="..." attributes, in order.
Pages == UNION { [1..n -> Hrefs] : n \in 0..MaxLinks }

\* The answers to the request for the HTML index page.
PageAnswers ==
    { [kind |-> "raise", error |-> e, hrefs |-> <<>>] : e \in FetchErrors }
    \cup { [kind |-> "ok", error |-> None, hrefs |-> p] : p \in Pages }

\* href="([^"]+\.htm[l]?)" with re.IGNORECASE matches the attribute.
PatternMatches(h) ==
    \/ EndsWith(LowerSeq(h), DotHtm) /\ Len(h) > Len(DotHtm)
    \/ EndsWith(LowerSeq(h), DotHtml) /\ Len(h) > Len(DotHtml)

\* re.findall(pattern, html, re.IGNORECASE)
FindAll(hrefs) == SelectSeq(hrefs, PatternMatches)

\* full_url of the fallback
FullUrl(match) ==
    IF Head(match) = "/" THEN Url(SecGov, match) ELSE Url(IndexUrl, match)

RECURSIVE FirstLink(_)
\* The loop over the matches: the first without "index" is returned.
FirstLink(matches) ==
    IF matches = <<>> THEN NoUrl
    ELSE IF ~Contains(LowerSeq(Head(matches)), IndexWord)
         THEN FullUrl(Head(matches))
         ELSE FirstLink(Tail(matches))

\* The try block of stage 2.
Stage2(answer) ==
    IF answer.kind # "ok"
    THEN [out |-> "raised", error |-> answer.error, url |-> NoUrl]
    ELSE [out |-> "ended", error |-> None, url |-> FirstLink(FindAll(answer.hrefs))]

\* Mutant of ExceptException: the handlers are for httpx.HTTPError only.
ExceptHTTPError(e) == e \in {"HTTPStatusError", "RequestError"}

\* except Exception: catches e.
ExceptException(e) == TRUE

\* get_filing_document_url is called: the JSON index is requested.
LocatorCall ==
    /\ lPc = "idle"
    /\ lPc' = "stage1"
    /\ lFetched' = <<"json_index">>
    /\ UNCHANGED <<lIndex, lPage, lHtmFiles, lPrimary, lResult, lRaised>>
    /\ UNCHANGED <<xPc, xData, xResult>>
    /\ UNCHANGED nonLocVars

\* The request for the JSON index ends: stage 1 returns the URL of the
\* largest candidate, or the HTML index page is requested.
IndexAnswered ==
    /\ lPc = "stage1"
    /\ \E answer \in IndexAnswers :
         LET r == Stage1(answer) IN
         /\ lIndex' = [kind |-> answer.kind, error |-> answer.error,
                       items |-> answer.items]
         /\ lHtmFiles' = r.files
         /\ IF r.out = "returned"
            THEN /\ lPrimary' = r.primary
                 /\ lResult' = Url(IndexUrl, r.primary.name)
                 /\ lPc' = "done"
                 /\ UNCHANGED <<lFetched, lRaised>>
            ELSE IF r.out = "raised" /\ ~ExceptException(r.error)
                 THEN /\ lRaised' = r.error
                      /\ lPc' = "done"
                      /\ UNCHANGED <<lFetched, lPrimary, lResult>>
                 ELSE /\ lFetched' = Append(lFetched, "html_index")
                      /\ lPc' = "stage2"
                      /\ UNCHANGED <<lPrimary, lResult, lRaised>>
    /\ UNCHANGED lPage
    /\ UNCHANGED <<xPc, xData, xResult>>
    /\ UNCHANGED nonLocVars

\* The request for the HTML index page ends: the first link that qualifies
\* is returned, or None.
PageAnswered ==
    /\ lPc = "stage2"
    /\ \E answer \in PageAnswers :
         LET r == Stage2(answer) IN
         /\ lPage' = answer
         /\ lPc' = "done"
         /\ IF r.out = "raised" /\ ~ExceptException(r.error)
            THEN lRaised' = r.error /\ UNCHANGED lResult
            ELSE lResult' = r.url /\ UNCHANGED lRaised
    /\ UNCHANGED <<lIndex, lFetched, lHtmFiles, lPrimary>>
    /\ UNCHANGED <<xPc, xData, xResult>>
    /\ UNCHANGED nonLocVars

\* The form types of the model's submissions documents.
Forms == {"10-K", "10-K/A", "8-K"}

FormLists == UNION { [1..n -> Forms] : n \in 0..MaxFilings }
AccessionLists == UNION { [1..n -> Accessions] : n \in 0..MaxFilings }

\* filings.recent of a submissions document.
Submissions ==
    [form : FormLists \cup {Absent}, accessionNumber : AccessionLists \cup {Absent}]

\* recent.get(key, [])
GetList(value) == IF value = Absent THEN <<>> ELSE value

\* zip(forms, accessions)
Zip(forms, accessions) ==
    [i \in 1..(IF Len(forms) <= Len(accessions) THEN Len(forms)
               ELSE Len(accessions)) |->
        [form |-> forms[i], accession |-> accessions[i]]]

\* Mutant of IsAnnual: an amendment counts as an annual report.
IsAnnualOrAmended(form) == form \in {"10-K", "10-K/A"}

\* form == "10-K"
IsAnnual(form) == form = "10-K"

RECURSIVE FirstAnnual(_)
\* The loop over the pairs, and the return None after it.
FirstAnnual(pairs) ==
    IF pairs = <<>> THEN None
    ELSE IF IsAnnual(Head(pairs).form) THEN Head(pairs).accession
         ELSE FirstAnnual(Tail(pairs))

\* get_latest_10k_accession, from the response to its return.
AccessionCall ==
    /\ xPc = "idle"
    /\ \E data \in Submissions :
         /\ xData' = data
         /\ xResult' = FirstAnnual(Zip(GetList(data.form),
                                       GetList(data.accessionNumber)))
    /\ xPc' = "done"
    /\ UNCHANGED <<lPc, lIndex, lPage, lFetched, lHtmFiles, lPrimary, lResult,
                   lRaised>>
    /\ UNCHANGED nonLocVars

\* The locator before any call, as the other parts leave it.
LocUnused ==
    /\ lPc = "idle"
    /\ lIndex = [kind |-> "none", error |-> None, items |-> <<>>]
    /\ lPage = [kind |-> "none", error |-> None, hrefs |-> <<>>]
    /\ lFetched = <<>>
    /\ lHtmFiles = <<>>
    /\ lPrimary = NoItem
    /\ lResult = UnsetUrl
    /\ lRaised = None
    /\ xPc = "idle"
    /\ xData = [form |-> Absent, accessionNumber |-> Absent]
    /\ xResult = "unset"

LocStart == LocUnused

NextLocator ==
    \/ LocatorCall
    \/ IndexAnswered
    \/ PageAnswered

NextAccession == AccessionCall

----------------------------------------------------------------------------
(* Part VIII: FilingParser -- the sections and their quality score *)

\* Bound: the number of lines of a cleaned filing text.
MaxLines == 4

\* Bound: the cap on the last section, 50000 characters in parser.py, in
\* characters of the model's texts.
SectionCap == 2

\* Mutant of PatternNames: only the sections that are analyzed are searched.
PatternNamesAnalyzed == <<"business", "risk_factors", "mda">>

\* The keys of SECTION_PATTERNS, in the order of the dict.
PatternNames ==
    <<"business", "risk_factors", "mda", "market_risk", "financials">>

\* A text that the pattern of a section matches when it starts a line.  A
\* text is a sequence of characters; a heading and a word each count as one.
Heading(name) ==
    CASE name = "business" -> "Item 1. Business"
      [] name = "risk_factors" -> "Item 1A. Risk Factors"
      [] name = "mda" -> "Item 7. Management"
      [] name = "market_risk" -> "Item 7A. Quantitative"
      [] name = "financials" -> "Item 8. Financial Statements"

\* The lines of the model's texts: a word, a heading, and a line that
\* mentions a heading after a word.
LineKinds ==
    { <<"w">>, <<"w", Heading("business")>> }
    \cup { <<Heading(name)>> :
             name \in {"business", "risk_factors", "mda", "market_risk",
                       "financials"} }

RECURSIVE JoinLines(_)
\* "\n".join(lines)
JoinLines(lines) ==
    IF lines = <<>> THEN <<>>
    ELSE IF Len(lines) = 1 THEN Head(lines)
         ELSE Head(lines) \o <<"nl">> \o JoinLines(Tail(lines))

\* What clean_html returns: lines that are stripped and not empty, joined by
\* newlines.
CleanTexts ==
    { JoinLines(lines) : lines \in UNION { [1..n -> LineKinds] : n \in 0..MaxLines } }

\* The starts of the matches of pattern.finditer(text), from 0: the pattern
\* is anchored at the start of the text or at a newline, which it includes.
HeadingStarts(name, text) ==
    { p \in 0..(Len(text) - 1) :
        \/ p = 0 /\ text[1] = Heading(name)
        \/ /\ text[p + 1] = "nl"
           /\ p + 2 <= Len(text)
           /\ text[p + 2] = Heading(name) }

\* Mutant of LastMatch: matches[0].start()
FirstMatch(starts) == CHOOSE p \in starts : \A q \in starts : p <= q

\* matches[-1].start()
LastMatch(starts) == CHOOSE p \in starts : \A q \in starts : q <= p

\* section_positions.items(), in the order of insertion.
SectionPositions(text) ==
    LET all == [i \in 1..Len(PatternNames) |->
                  [name |-> PatternNames[i],
                   starts |-> HeadingStarts(PatternNames[i], text)]]
        found == SelectSeq(all, LAMBDA e : e.starts # {})
    IN [i \in 1..Len(found) |->
          [name |-> found[i].name, start |-> LastMatch(found[i].starts)]]

InsertByStart(sorted, x) ==
    SelectSeq(sorted, LAMBDA e : e.start <= x.start)
        \o <<x>> \o SelectSeq(sorted, LAMBDA e : e.start > x.start)

RECURSIVE SortByStart(_)
\* sorted(section_positions.items(), key=lambda x: x[1])
SortByStart(items) ==
    IF items = <<>> THEN <<>>
    ELSE InsertByStart(SortByStart(SubSeq(items, 1, Len(items) - 1)),
                       items[Len(items)])

Min(a, b) == IF a <= b THEN a ELSE b

\* Mutant of EndPos: the cap applies to every section.
EndPosCapped(sorted, i, text) ==
    LET capped == Min(sorted[i].start + SectionCap, Len(text)) IN
    IF i + 1 <= Len(sorted) THEN Min(sorted[i + 1].start, capped) ELSE capped

\* end_pos of the i-th sorted section.
EndPos(sorted, i, text) ==
    IF i + 1 <= Len(sorted) THEN sorted[i + 1].start
    ELSE Min(sorted[i].start + SectionCap, Len(text))

\* text[a:b]
Slice(text, a, b) == SubSeq(text, a + 1, b)

RECURSIVE LStripText(_)
LStripText(t) == IF t # <<>> /\ Head(t) = "nl" THEN LStripText(Tail(t)) ELSE t

RECURSIVE RStripText(_)
RStripText(t) ==
    IF t # <<>> /\ t[Len(t)] = "nl" THEN RStripText(SubSeq(t, 1, Len(t) - 1))
    ELSE t

\* str.strip()
StripText(t) == RStripText(LStripText(t))

\* extract_sections(text): the sorted names, the positions of every slice
\* and the mapping that is returned.
ExtractSections(text) ==
    LET sorted == SortByStart(SectionPositions(text))
        names == { sorted[i].name : i \in 1..Len(sorted) }
        at(name) == CHOOSE i \in 1..Len(sorted) : sorted[i].name = name
    IN [order |-> [i \in 1..Len(sorted) |-> sorted[i].name],
        bounds |-> [name \in names |->
                      [start |-> sorted[at(name)].start,
                       end |-> EndPos(sorted, at(name), text)]],
        sections |-> [name \in names |->
                        StripText(Slice(text, sorted[at(name)].start,
                                        EndPos(sorted, at(name), text)))]]

\* parser.extract_sections(clean_text)
ExtractCall ==
    /\ ePc = "idle"
    /\ \E text \in CleanTexts :
         LET r == ExtractSections(text) IN
         /\ eText' = text
         /\ eOrder' = r.order
         /\ eBounds' = r.bounds
         /\ eSections' = r.sections
    /\ ePc' = "done"
    /\ UNCHANGED <<vPc, vSections, vScore>>
    /\ UNCHANGED nonSectVars

\* MIN_WORD_COUNTS
MinWordCounts ==
    ("business" :> 500) @@ ("risk_factors" :> 300) @@ ("mda" :> 500)
        @@ ("market_risk" :> 100) @@ ("financials" :> 100)

\* The section texts of the model, each by the number of words that
\* split() finds in it: none, one below the minimum, the minimum, more.
WordCounts(name) ==
    {0, MinWordCounts[name] - 1, MinWordCounts[name], 2 * MinWordCounts[name]}

\* The mappings that validate_sections is called with.
SectionSets ==
    UNION { { s \in [S -> UNION { WordCounts(n) : n \in S }] :
                \A n \in S : s[n] \in WordCounts(n) } :
            S \in SUBSET DOMAIN MinWordCounts }

\* len(sections[name].split())
WordCount(words) == words

\* Mutant of Passes: the minimum itself does not pass.
PassesAbove(wordCount, minWords) == wordCount > minWords

\* if word_count >= min_words
Passes(wordCount, minWords) == wordCount >= minWords

\* passed_checks after the loop
PassedChecks(sections) ==
    Cardinality({ name \in DOMAIN MinWordCounts :
                    /\ name \in DOMAIN sections
                    /\ Passes(WordCount(sections[name]), MinWordCounts[name]) })

\* total_checks
TotalChecks == Cardinality(DOMAIN MinWordCounts)

\* int((passed_checks / total_checks) * 100); the float product is exact for
\* every count out of five.
QualityScore(sections) ==
    IF TotalChecks > 0 THEN (PassedChecks(sections) * 100) \div TotalChecks ELSE 0

\* parser.validate_sections(sections)
ValidateCall ==
    /\ vPc = "idle"
    /\ \E sections \in SectionSets :
         /\ vSections' = sections
         /\ vScore' = QualityScore(sections)
    /\ vPc' = "done"
    /\ UNCHANGED <<ePc, eText, eOrder, eBounds, eSections>>
    /\ UNCHANGED nonSectVars

\* The parser before any call, as the other parts leave it.
SectUnused ==
    /\ ePc = "idle"
    /\ eText = <<>>
    /\ eOrder = <<>>
    /\ eBounds = <<>>
    /\ eSections = <<>>
    /\ vPc = "idle"
    /\ vSections = <<>>
    /\ vScore = 0

SectStart == SectUnused

NextExtract == ExtractCall

NextValidate == ValidateCall

----------------------------------------------------------------------------
(* Part IX: FilingWatcher -- the watchlist lookup of poll_once *)

\* Bound: the number of entries of a watchlist.
MaxWatch == 2

WatchTickers == {"AAPL", "MSFT", "NVDA"}

\* The identifiers a watchlist is written with, zero-padded ones included.
WatchCiks == { <<3, 2>>, <<0, 3, 2>>, <<0, 0, 3, 2>>, <<3, 2, 0>> }

\* The identifiers the patterns find in feed entries.
FeedCiks ==
    { <<3, 2>>, <<0, 3, 2>>, <<0, 0, 0, 3, 2>>, <<3, 2, 0>>, <<2, 3>>, <<0>> }

\* config.watchlist is a dict: its tickers are distinct.
Watchlists ==
    { wl \in UNION { [1..n -> [ticker : WatchTickers, cik : WatchCiks]] :
                        n \in 0..MaxWatch } :
        \A i, j \in 1..Len(wl) : wl[i].ticker = wl[j].ticker => i = j }

NoFiling == [ticker |-> None, cik |-> NoCik]

\* filing_event, as far as the lookup decides it.
FilingEvent(wl, ticker) == [ticker |-> ticker, cik |-> CikIn(wl, ticker)]

\* poll_once, from the match of the CIK to the event, for an entry with an
\* accession that has not been seen: the entry is skipped (if not ticker:
\* continue) or its event is appended.
LookupCall ==
    /\ kPc = "idle"
    /\ \E wl \in Watchlists, cik \in FeedCiks :
          /\ kWatchlist' = wl
          /\ kCik' = cik
          /\ kTicker' = TickerIn(wl, cik)
          /\ kEvent' = IF TickerIn(wl, cik) = None THEN NoFiling
                       ELSE FilingEvent(wl, TickerIn(wl, cik))
    /\ kPc' = "done"
    /\ UNCHANGED nonLookVars

\* The lookup before any call, as the other parts leave it.
LookUnused ==
    /\ kPc = "idle"
    /\ kWatchlist = <<>>
    /\ kCik = NoCik
    /\ kTicker = None
    /\ kEvent = NoFiling

LookStart == LookUnused

NextLookup == LookupCall

----------------------------------------------------------------------------
(* Part X: run_watcher -- the feed poll beside the EDGARClient *)

\* Bound: the number of feed polls during one run of the pipeline.
MaxPolls == 1

\* How long after the start of the latest request of the EDGARClient a
\* feed request starts.
FeedStartGap(start) == IF start = NoTime THEN NoGap ELSE now - start

\* poll_once, while run_pipeline uses the EDGARClient: its own
\* httpx.AsyncClient sends the GET for the feed at once; _last_request_time
\* is neither read nor set.
FeedRequest ==
    /\ feedPolls < MaxPolls
    /\ feedPolls' = feedPolls + 1
    /\ feedGap' = FeedStartGap(lastStart)
    /\ UNCHANGED nonFeedVars

\* No feed poll yet, as the other parts leave it.
FeedUnused ==
    /\ feedPolls = 0
    /\ feedGap = NoGap

\* run_pipeline, called by process_events, and the watcher beside it.
ArchiveStart ==
    /\ ClientStart
    /\ driver = "pipeline"
    /\ FeedUnused

NextArchive ==
    \/ NextClient
    \/ FeedRequest

----------------------------------------------------------------------------
(* Part XI: run_watcher -- an event of the queue and its pipeline run *)

\* process_events: the event is taken off the queue and run_pipeline is
\* called with event["ticker"] and event["cik"]; event["accession"] is not
\* passed on.
EventRun ==
    /\ GetEvent
    /\ BeginRun(QueueGet(cQueue).event.ticker)
    /\ UNCHANGED nonModePipeVars

\* run_pipeline has returned: queue.task_done() and the next queue.get().
EventDone ==
    /\ rpc = "idle"
    /\ ProcessRunEnds

\* The watcher puts the event of a filing it found in the feed.  The feed
\* lists every filing of the 10-K family as it is accepted; the submissions
\* document, which run_pipeline reads later, has its own latest 10-K.
NextEvents ==
    \/ \E e \in Events : WatcherPuts(e)
    \/ \E tk \in PipeTickers : Publish(tk)
    \/ EventRun
    \/ AccessionDone
    \/ GatherDone
    \/ DownloadDone
    \/ AnalyzeDone
    \/ BriefDone
    \/ EventDone

----------------------------------------------------------------------------
(* Part XII: EDGARClient -- the annual values of the numeric facts *)

\* Bound: the number of entries of the first concept of a list.
MaxValues == 4

\* Bound: the number of entries of a later concept.
MaxLater == 1

\* The lists get_xbrl_facts passes for net_income and total_assets.
ConceptLists == { <<"NetIncomeLoss", "ProfitLoss">>, <<"Assets">> }

\* A period end is the sequence of the characters of its date (here of its
\* year, 20 to 24); NoEnd is the default of entry.get("end", ""), the empty
\* string.
NoEnd == <<>>

\* The entries of a units.USD list: annual ones, two of them for one period
\* end, one without the key end, and one of an amended filing.
FactEntries ==
    { [form |-> "10-K",   fp |-> "FY", end |-> <<2, 3>>, val |-> 1, fy |-> 23],
      [form |-> "10-K",   fp |-> "FY", end |-> <<2, 2>>, val |-> 2, fy |-> 22],
      [form |-> "10-K",   fp |-> "FY", end |-> <<2, 3>>, val |-> 3, fy |-> 24],
      [form |-> "10-K",   fp |-> "FY", end |-> <<2, 1>>, val |-> 4, fy |-> 21],
      [form |-> "10-K",   fp |-> "FY", end |-> <<2, 0>>, val |-> 5, fy |-> 20],
      [form |-> "10-K/A", fp |-> "FY", end |-> <<2, 4>>, val |-> 6, fy |-> 24],
      [form |-> "10-K",   fp |-> "FY", end |-> NoEnd,    val |-> 7, fy |-> 19] }

\* The lists of up to n entries, no entry twice.
FactLists(n) ==
    { l \in UNION { [1..k -> FactEntries] : k \in 0..n } :
        \A i, j \in 1..Len(l) : l[i] = l[j] => i = j }

FirstLists == FactLists(MaxValues)

LaterLists == FactLists(MaxLater)

\* us_gaap.get(concept, {}).get("units", {}).get("USD", [])
UsdValues(usGaap, concept) ==
    IF concept \in DOMAIN usGaap THEN usGaap[concept] ELSE <<>>

\* Mutant of AnnualEntry: the form is not looked at.
FiscalYearEntry(v) == v.fp = "FY"

\* v.get("form") == "10-K" and v.get("fp") == "FY"
AnnualEntry(v) == v.form = "10-K" /\ v.fp = "FY"

\* annual = [v for v in usd_values if ...]
RECURSIVE Annual(_)
Annual(values) ==
    IF values = <<>> THEN <<>>
    ELSE IF AnnualEntry(Head(values))
         THEN <<Head(values)>> \o Annual(Tail(values))
         ELSE Annual(Tail(values))

\* a < b for strings, character by character.
RECURSIVE StrLess(_, _)
StrLess(a, b) ==
    IF b = <<>> THEN FALSE
    ELSE IF a = <<>> THEN TRUE
    ELSE IF Head(a) # Head(b) THEN Head(a) < Head(b)
    ELSE StrLess(Tail(a), Tail(b))

\* annual.sort(key=lambda x: x.get("end", ""), reverse=True): the sort is
\* stable, entries with one key keep their order.
RECURSIVE InsertByEnd(_, _)
InsertByEnd(sorted, x) ==
    IF sorted = <<>> THEN <<x>>
    ELSE IF StrLess(Head(sorted).end, x.end)
         THEN <<x>> \o sorted
         ELSE <<Head(sorted)>> \o InsertByEnd(Tail(sorted), x)

RECURSIVE SortByEnd(_)
SortByEnd(values) ==
    IF values = <<>> THEN <<>>
    ELSE InsertByEnd(SortByEnd(SubSeq(values, 1, Len(values) - 1)),
                     values[Len(values)])

\* The loop over the sorted entries: the first entry of each period end is
\* kept, and the loop ends once three are kept.
RECURSIVE Unique(_, _, _)
Unique(entries, seenDates, unique) ==
    IF entries = <<>> THEN unique
    ELSE LET entry == Head(entries)
             kept == IF entry.end \notin seenDates
                     THEN Append(unique, [period_end |-> entry.end,
                                          value |-> entry.val,
                                          fiscal_year |-> entry.fy])
                     ELSE unique
         IN  IF Len(kept) >= 3 THEN kept
             ELSE Unique(Tail(entries), seenDates \cup {entry.end}, kept)

\* _extract_annual_values(us_gaap, concept_names)
RECURSIVE ExtractAnnualValues(_, _)
ExtractAnnualValues(usGaap, conceptNames) ==
    IF conceptNames = <<>> THEN <<>>
    ELSE LET annual == Annual(UsdValues(usGaap, Head(conceptNames)))
         IN  IF annual # <<>>
             THEN Unique(SortByEnd(annual), {}, <<>>)
             ELSE ExtractAnnualValues(usGaap, Tail(conceptNames))

\* A call of _extract_annual_values: the first concept of the list has any
\* list, each later one a short list, or is absent from us_gaap.
ExtractAnnualCall ==
    /\ nPc = "idle"
    /\ \E names \in ConceptLists, first \in FirstLists :
       \E later \in [{names[i] : i \in 2..Len(names)} -> LaterLists],
          present \in BOOLEAN :
          LET usGaap == IF present THEN (names[1] :> first) @@ later
                        ELSE later
          IN  /\ (~present => first = <<>>)
              /\ nUsGaap' = usGaap
              /\ nConcepts' = names
              /\ nResult' = ExtractAnnualValues(usGaap, names)
    /\ nPc' = "done"
    /\ UNCHANGED nonFactVars

\* No call yet, as the other parts leave it.
FactUnused ==
    /\ nPc = "idle"
    /\ nUsGaap = <<>>
    /\ nConcepts = <<>>
    /\ nResult = <<>>

FactStart == FactUnused

NextFacts == ExtractAnnualCall

----------------------------------------------------------------------------
(* Part XIII: GroqAnalyzer -- the token counter under the gathered analyses *)

\* The largest total_tokens a response reports here.
MaxTokens == 2

TokenValues == 1..MaxTokens

\* usage of a response: None, or an object with its total_tokens.
NoUsage == 0
Usages == {NoUsage} \cup TokenValues

\* Mutant of AddTokens: the counter as it was when the request was sent,
\* plus the tokens.
AddTokensToSent(total, sent, tokens) == sent + tokens

\* self.total_tokens_used += tokens, after the await of the request: the
\* counter is read and written in one step of the event loop.
AddTokens(total, sent, tokens) == total + tokens

\* The sum of a function of numbers over a set of its arguments.
RECURSIVE SumOver(_, _)
SumOver(f, S) ==
    IF S = {} THEN 0
    ELSE LET x == CHOOSE y \in S : TRUE
         IN  f[x] + SumOver(f, S \ {x})

\* The tasks of the sections that have a validated text are gathered.
TokFanOut ==
    /\ tGather = "idle"
    /\ \E tasks \in SUBSET SectionsToAnalyze :
        tPc' = [s \in SectionsToAnalyze |->
                    IF s \in tasks THEN "new" ELSE "none"]
    /\ tGather' = "gathering"
    /\ UNCHANGED <<tAttempt, tSent, tOwn, tOut, total_tokens_used>>
    /\ UNCHANGED nonTokVars

\* A task runs to the await of its first request.
TokSend(s) ==
    /\ tGather = "gathering"
    /\ tPc[s] = "new"
    /\ tPc' = [tPc EXCEPT ![s] = "calling"]
    /\ tSent' = [tSent EXCEPT ![s] = total_tokens_used]
    /\ UNCHANGED <<tGather, tAttempt, tOwn, tOut, total_tokens_used>>
    /\ UNCHANGED nonTokVars

\* The response of a request arrives: the usage is counted, and the call
\* returns the parsed result or the parse_failed dict.
TokResponse(s) ==
    /\ tPc[s] = "calling"
    /\ \E usage \in Usages :
        /\ total_tokens_used' =
                IF usage = NoUsage THEN total_tokens_used
                ELSE AddTokens(total_tokens_used, tSent[s], usage)
        /\ tOwn' = [tOwn EXCEPT ![s] = usage]
    /\ tPc' = [tPc EXCEPT ![s] = "done"]
    /\ tOut' = [tOut EXCEPT ![s] = "result"]
    /\ UNCHANGED <<tGather, tAttempt, tSent>>
    /\ UNCHANGED nonTokVars

\* The request raises RateLimitError: the sleep of the attempt begins.
TokRateLimited(s) ==
    /\ tPc[s] = "calling"
    /\ tPc' = [tPc EXCEPT ![s] = "sleeping"]
    /\ UNCHANGED <<tGather, tAttempt, tSent, tOwn, tOut, total_tokens_used>>
    /\ UNCHANGED nonTokVars

\* The sleep is over: the next attempt sends its request, or the loop is
\* over and the call returns the error dict.
TokSleepDone(s) ==
    /\ tPc[s] = "sleeping"
    /\ tAttempt' = [tAttempt EXCEPT ![s] = @ + 1]
    /\ IF tAttempt[s] + 1 < GroqAttempts
       THEN /\ tPc' = [tPc EXCEPT ![s] = "calling"]
            /\ tSent' = [tSent EXCEPT ![s] = total_tokens_used]
            /\ UNCHANGED tOut
       ELSE /\ tPc' = [tPc EXCEPT ![s] = "done"]
            /\ tOut' = [tOut EXCEPT ![s] = "error"]
            /\ UNCHANGED tSent
    /\ UNCHANGED <<tGather, tOwn, total_tokens_used>>
    /\ UNCHANGED nonTokVars

\* The request raises another exception: the call returns the error dict.
TokError(s) ==
    /\ tPc[s] = "calling"
    /\ tPc' = [tPc EXCEPT ![s] = "done"]
    /\ tOut' = [tOut EXCEPT ![s] = "error"]
    /\ UNCHANGED <<tGather, tAttempt, tSent, tOwn, total_tokens_used>>
    /\ UNCHANGED nonTokVars

\* Every task has returned: gather returns.
TokGathered ==
    /\ tGather = "gathering"
    /\ \A s \in SectionsToAnalyze : tPc[s] \in {"none", "done"}
    /\ tGather' = "returned"
    /\ UNCHANGED <<tPc, tAttempt, tSent, tOwn, tOut, total_tokens_used>>
    /\ UNCHANGED nonTokVars

\* A new GroqAnalyzer, before the analyses of a run.
TokUnused ==
    /\ tGather = "idle"
    /\ tPc = [s \in SectionsToAnalyze |-> "none"]
    /\ tAttempt = [s \in SectionsToAnalyze |-> 0]
    /\ tSent = [s \in SectionsToAnalyze |-> 0]
    /\ tOwn = [s \in SectionsToAnalyze |-> 0]
    /\ tOut = [s \in SectionsToAnalyze |-> "none"]
    /\ total_tokens_used = 0

TokStart == TokUnused

NextTokens ==
    \/ TokFanOut
    \/ \E s \in SectionsToAnalyze : TokSend(s)
    \/ \E s \in SectionsToAnalyze : TokResponse(s)
    \/ \E s \in SectionsToAnalyze : TokRateLimited(s)
    \/ \E s \in SectionsToAnalyze : TokSleepDone(s)
    \/ \E s \in SectionsToAnalyze : TokError(s)
    \/ TokGathered

\* The parts after Part VI as the other parts leave them.
LaterUnused ==
    /\ LocUnused /\ SectUnused /\ LookUnused /\ FeedUnused /\ FactUnused
    /\ TokUnused

----------------------------------------------------------------------------
(* Specifications *)

InitClient == ClientStart /\ WatcherUnused /\ PipeUnused /\ GroqUnused /\ SynthUnused /\ ModeUnused /\ LaterUnused
SpecClient == InitClient /\ [][NextClient]_vars

InitWatcher == WatcherStart /\ ClientUnused /\ PipeUnused /\ GroqUnused /\ SynthUnused /\ ModeUnused /\ LaterUnused
SpecWatcher == InitWatcher /\ [][NextWatcher]_vars

InitPoll == PollStart /\ ClientUnused /\ PipeUnused /\ GroqUnused /\ SynthUnused /\ ModeUnused /\ LaterUnused
SpecPoll == InitPoll /\ [][NextPoll]_vars

InitPipeline == PipeStart /\ ClientUnused /\ WatcherUnused /\ GroqUnused /\ SynthUnused /\ ModeUnused /\ LaterUnused
SpecPipeline == InitPipeline /\ [][NextPipeline]_vars

InitGroq == GroqStart /\ ClientUnused /\ WatcherUnused /\ PipeUnused /\ SynthUnused /\ ModeUnused /\ LaterUnused
SpecGroq == InitGroq /\ [][NextGroq]_vars

InitParse == ParseStart /\ ClientUnused /\ WatcherUnused /\ PipeUnused /\ SynthUnused /\ ModeUnused /\ LaterUnused
SpecParse == InitParse /\ [][NextParse]_vars

InitSynth ==
    SynthStart /\ ClientUnused /\ WatcherUnused /\ PipeUnused /\ GroqUnused
        /\ ModeUnused /\ LaterUnused
SpecSynth == InitSynth /\ [][NextSynth]_vars

OthersUnused ==
    ClientUnused /\ WatcherUnused /\ PipeUnused /\ GroqUnused /\ SynthUnused
        /\ LaterUnused

InitBackfill == BackfillStart /\ OthersUnused
SpecBackfill == InitBackfill /\ [][NextBackfill]_vars

InitConsumer == ConsumerStart /\ OthersUnused
SpecConsumer == InitConsumer /\ [][NextConsumer]_vars

InitLocator == LocStart /\ OthersUnused /\ ModeUnused
SpecLocator == InitLocator /\ [][NextLocator]_vars

InitAccession == LocStart /\ OthersUnused /\ ModeUnused
SpecAccession == InitAccession /\ [][NextAccession]_vars

InitExtract == SectStart /\ OthersUnused /\ ModeUnused
SpecExtract == InitExtract /\ [][NextExtract]_vars

InitValidate == SectStart /\ OthersUnused /\ ModeUnused
SpecValidate == InitValidate /\ [][NextValidate]_vars

InitArchive ==
    ArchiveStart /\ WatcherUnused /\ PipeUnused /\ GroqUnused /\ SynthUnused
        /\ ModeUnused /\ LocUnused /\ SectUnused /\ LookUnused /\ FactUnused
        /\ TokUnused
SpecArchive == InitArchive /\ [][NextArchive]_vars

InitEvents ==
    PipeStart /\ ConsumerStart /\ ClientUnused /\ WatcherUnused /\ GroqUnused
        /\ SynthUnused /\ LaterUnused
SpecEvents == InitEvents /\ [][NextEvents]_vars

InitFacts == FactStart /\ OthersUnused /\ ModeUnused
SpecFacts == InitFacts /\ [][NextFacts]_vars

InitTokens ==
    TokStart /\ ClientUnused /\ WatcherUnused /\ PipeUnused /\ GroqUnused
        /\ SynthUnused /\ ModeUnused /\ LocUnused /\ SectUnused
        /\ LookUnused /\ FeedUnused /\ FactUnused
SpecTokens == InitTokens /\ [][NextTokens]_vars

InitLookup == LookStart /\ OthersUnused /\ ModeUnused
SpecLookup == InitLookup /\ [][NextLookup]_vars

\* A request ends, with a response or an error (it carries a timeout), and a
\* sleep ends: the event loop resumes run() at each of its awaits.
FairSpecWatcher ==
    SpecWatcher /\ WF_vars(PollOk \/ PollFail) /\ WF_vars(SleepDone)

----------------------------------------------------------------------------
(* Properties of the EDGAR client *)

RECURSIVE SumSeq(_)
SumSeq(s) == IF s = <<>> THEN 0 ELSE Head(s) + SumSeq(Tail(s))

Seconds(n) == n * TicksPerSecond
Last(s) == s[Len(s)]
AllOutcomes(c, S) == \A i \in 1..Len(outs[c]) : outs[c][i] \in S
Failed(c) == res[c] \notin {"none", "ok"}

\* C1: of any two requests sent through the same EDGARClient, the later one
\* starts at least sec_rate_limit_delay after the earlier one starts, also
\* when the operations sending them run concurrently on the event loop.
C1_StartSpacing == ssGap = NoGap \/ ssGap >= RateLimitDelay

\* C2 as claimed: between the END of a request and the START of the next
\* request that does not overlap it, at least sec_rate_limit_delay elapses.
C2_EndToStart == esGap = NoGap \/ esGap >= RateLimitDelay

\* C2 as amended: between the START of a request and the START of the next
\* request that does not overlap it, at least sec_rate_limit_delay elapses.
C2_StartToStart == esGap # NoGap => ssGap >= RateLimitDelay

\* A request was sent less than the delay after the previous one had ended,
\* the limiter having slept exactly the rest of the delay since its start.
C2_Witness == esGap # NoGap /\ esGap < RateLimitDelay /\ ssGap = RateLimitDelay

\* C3: a call of _rate_limited_get that is answered 429 on every attempt sends
\* exactly 4 requests, sleeps 2, 4 and 8 seconds between consecutive attempts
\* and ends in RuntimeError, which no call ending on another failure raises;
\* a success is returned at once and is the last request of the call.
C3_Persistent429 ==
    \A c \in RLCalls :
        /\ Len(outs[c]) <= MaxRetries + 1
        /\ \A i \in 1..Len(outs[c]) :
               outs[c][i] = "ok" => i = Len(outs[c]) /\ res[c] = "ok"
        /\ res[c] = "ok" => Last(outs[c]) = "ok"
        /\ \A i \in 1..Len(outs[c]) - 1 :
               /\ i <= Len(backoffs[c])
               /\ backoffs[c][i] = Seconds(2 ^ i)
        /\ Failed(c) /\ AllOutcomes(c, {"429"}) =>
               /\ Len(outs[c]) = MaxRetries + 1
               /\ SubSeq(backoffs[c], 1, MaxRetries)
                     = <<Seconds(2), Seconds(4), Seconds(8)>>
               /\ res[c] = "RuntimeError"
        /\ Failed(c) /\ Last(outs[c]) # "429" => res[c] # "RuntimeError"

\* A call was answered 429 four times and gave up.
C3_Witness ==
    \E c \in RLCalls :
        outs[c] = <<"429", "429", "429", "429">> /\ res[c] = "RuntimeError"

\* The backoff the retry loop sleeps in all when every attempt ends in o.
RECURSIVE TotalBackoff(_, _)
TotalBackoff(o, a) ==
    IF a > MaxRetries THEN 0
    ELSE (IF BacksOff(o, a) THEN Backoff(a) ELSE 0) + TotalBackoff(o, a + 1)

\* C4: a call of _rate_limited_get whose every attempt ends in a non-429 HTTP
\* error or a transport failure makes exactly 4 attempts, sleeps the same
\* backoffs between them and the same backoff in total as a call answered
\* 429 throughout, and raises the error of the last attempt.
C4_SameBackoffAs429 ==
    \A c \in RLCalls :
        Failed(c) /\ AllOutcomes(c, {"http_error", "request_error"}) =>
            /\ Len(outs[c]) = MaxRetries + 1
            /\ SubSeq(backoffs[c], 1, MaxRetries)
                  = <<Seconds(2), Seconds(4), Seconds(8)>>
            /\ res[c] = ErrorOf(Last(outs[c]))
            /\ SumSeq(backoffs[c]) = TotalBackoff("429", 0)

\* C5: fetch_filing_html gives up only after the first attempt and its 3
\* retries have failed, like _rate_limited_get.
C5_StreamRetries == Failed("html") => Len(outs["html"]) = MaxRetries + 1

----------------------------------------------------------------------------
(* Properties of the watcher *)

\* The number a CIK denotes.
RECURSIVE Num(_)
Num(s) == IF s = <<>> THEN 0 ELSE 10 * Num(SubSeq(s, 1, Len(s) - 1)) + s[Len(s)]

OnWatchlist(e) ==
    /\ ExtractCik(e) # NoCik
    /\ \E i \in 1..Len(Watchlist) : Num(ExtractCik(e)) = Num(Watchlist[i].cik)

\* Entry i of feed f carries an accession that is not in S, for a company
\* of the watchlist.
Qualifies(f, i, S) == f[i].acc # None /\ f[i].acc \notin S /\ OnWatchlist(f[i])

AcceptedSet(f, S) == { f[i].acc : i \in {j \in 1..Len(f) : Qualifies(f, j, S)} }

FirstIdx(f, S, a) ==
    CHOOSE i \in 1..Len(f) :
        /\ Qualifies(f, i, S) /\ f[i].acc = a
        /\ \A j \in 1..Len(f) : Qualifies(f, j, S) /\ f[j].acc = a => i <= j

\* C8: poll_once returns exactly one event for each distinct accession of the
\* feed that is not in the seen set S and belongs to a watchlist company, in
\* feed order, and leaves the seen set equal to S plus those accessions.
C8_PollOnce ==
    cycle = "ok" =>
        LET acc == AcceptedSet(lastFeed, seenBefore)
            ev == lastEvents
        IN  /\ Len(ev) = Cardinality(acc)
            /\ {ev[j].accession : j \in 1..Len(ev)} = acc
            /\ \A j, k \in 1..Len(ev) :
                   j < k => FirstIdx(lastFeed, seenBefore, ev[j].accession)
                              < FirstIdx(lastFeed, seenBefore, ev[k].accession)
            /\ seen = seenBefore \cup acc
            /\ seenBefore \subseteq seen

\* With A seen, a feed of A and of B for a watchlist company gave one event,
\* for B, and B was added.
C8_Witness ==
    /\ cycle = "ok"
    /\ seenBefore = {"A"}
    /\ Len(lastFeed) = 2
    /\ lastFeed[1].acc = "A" /\ lastFeed[2].acc = "B"
    /\ Len(lastEvents) = 1 /\ lastEvents[1].accession = "B"
    /\ seen = {"A", "B"}

\* C9: a poll cycle that fails leaves run() in its loop, at the sleep, with
\* the seen set and the queue as they were, and unless the watcher is
\* stopped another poll is attempted after the sleep.
C9_FailedCycle ==
    /\ [][(wpc = "polling" /\ wpc' # "polling" /\ cycle' = "failed")
            => (wpc' = "sleeping" /\ seen' = seen /\ queue' = queue)]_vars
    /\ ((wpc = "sleeping" /\ cycle = "failed" /\ running)
            ~> (wpc = "polling" \/ ~running))

\* A poll is in flight, the cycle before it having failed.
C9_Witness == wpc = "polling" /\ cycle = "failed" /\ running

\* C10: after stop(), at whatever point it is called (before run() starts,
\* during a poll, during the sleep), no new poll cycle begins.
C10_NoPollAfterStop == pollAfterStop = "no"

\* What holds of stop(): after a stop() that is called while run() is
\* executing, no new poll cycle begins, the poll in flight is left to
\* complete, and run() returns.
StopDuringRun ==
    /\ [](pollAfterStop # "during")
    /\ [][(running /\ ~running')
            => (wpc' = wpc /\ seen' = seen /\ queue' = queue)]_vars
    /\ ((stopDuringRun # "no") ~> (wpc = "returned"))

\* stop() came during a poll; the poll completed and delivered its events,
\* and run() has returned.
StopDuringPollSeen ==
    /\ stopDuringRun = "polling"
    /\ wpc = "returned"
    /\ cycle = "ok"
    /\ lastEvents # <<>>

----------------------------------------------------------------------------
(* Properties of the pipeline *)

\* C6: each accession has at most one filing record and at most one
\* investment brief, and a run whose accession is already in storage makes
\* no document download, no LLM call and no storage write.
C6_ProcessedOnce ==
    /\ \A a \in Accessions : filings[a] <= 1 /\ briefs[a] <= 1
    /\ rInStorage =>
         /\ "document" \notin rFetches
         /\ rLLM = {}
         /\ rWrites = {}

\* A second run for an accession that has its filing and its brief has
\* ended at the check.
C6_Witness ==
    /\ rInStorage
    /\ rpc = "idle"
    /\ filings[rAcc] = 1 /\ briefs[rAcc] = 1
    /\ rFetches = {"submissions"}

\* C7 as claimed: a run for an already-processed filing issues no request
\* to the archive.
C7_ZeroFetches == rInStorage => rFetches = {}

\* C7 as amended: the storage check follows the submissions request, which
\* yields the accession, and precedes every other request; a run for an
\* already-processed filing issues the submissions request and no other.
C7_CheckAfterLookup ==
    /\ rFetches \ {"submissions"} # {} => rChecked /\ ~rInStorage
    /\ rChecked => "submissions" \in rFetches
    /\ rInStorage => rFetches = {"submissions"}

\* A run has found its accession in storage, with the submissions request
\* made.
C7_Witness == rChecked /\ rInStorage /\ rFetches = {"submissions"} /\ runs >= 2

\* C21: when get_filing_document_url returns None, the run ends at once
\* and by a return, not through the except clause: it has requested no
\* document, made no LLM call and written no table.
C21_UnresolvedSkipped ==
    rDocUrl = None =>
        /\ rpc = "idle"
        /\ ~rCaught
        /\ "document" \notin rFetches
        /\ rLLM = {}
        /\ rWrites = {}

\* A run whose accession was new has ended for want of a document URL.
C21_Witness ==
    /\ rDocUrl = None
    /\ rpc = "idle"
    /\ rChecked /\ ~rInStorage
    /\ rFetches = {"submissions", "xbrl", "index"}
    /\ filings[rAcc] = 0

----------------------------------------------------------------------------
(* Properties of the analyzer *)

AllRateLimited == gOuts # <<>> /\ \A i \in 1..Len(gOuts) : gOuts[i] = "rate_limit"

\* C11: when every call is answered with a rate-limit error, the method
\* makes the first call and 3 retries, 4 calls in all, backs off
\* 2^(attempt+1) seconds between them, and then returns
\* max_retries_exceeded.
C11_FourCalls ==
    (gPc = "done" /\ AllRateLimited) =>
        /\ Len(gOuts) = 4
        /\ \A i \in 1..(Len(gOuts) - 1) : gSleeps[i] = 2 ^ i
        /\ gResult["error"] = "max_retries_exceeded"

\* C12: when the first call is rate-limited and the second succeeds,
\* analyze_section makes exactly 2 calls, sleeps one backoff interval of 2
\* seconds in all, and returns the tagged result of the second call.
C12_OneBackoff ==
    (gFn = "analyze_section" /\ Len(gOuts) >= 2
        /\ gOuts[1] = "rate_limit" /\ gOuts[2] = "ok") =>
        /\ gPc = "done"
        /\ Len(gOuts) = 2
        /\ Len(gSleeps) = 1
        /\ SumSeq(gSleeps) = 2
        /\ ParseJsonResponse(gText).kind = "dict" =>
             /\ "error" \notin DOMAIN gResult
             /\ gResult["_section"] = gSection
             /\ gResult["_model"] = Model
             /\ \A k \in DOMAIN ParseJsonResponse(gText).dict :
                    gResult[k] = ParseJsonResponse(gText).dict[k]

\* A rate limit, then the object of members a and b: two calls, 2 seconds.
C12_Witness ==
    /\ gFn = "analyze_section"
    /\ gPc = "done"
    /\ gOuts = <<"rate_limit", "ok">>
    /\ gSleeps = <<2>>
    /\ DOMAIN gResult = {"a", "b", "_section", "_model"}

\* C13: a call that fails with anything but a rate-limit error ends the
\* method at once: it is the last call, no backoff sleep follows it, and the
\* result carries the description of the failure, never
\* max_retries_exceeded.
C13_FailsAtOnce ==
    \A i \in 1..Len(gOuts) :
        gOuts[i] = "error" =>
            /\ i = Len(gOuts)
            /\ gPc = "done"
            /\ Len(gSleeps) = i - 1
            /\ gResult["error"] = "APIError"
            /\ gResult["error"] # "max_retries_exceeded"

\* The first call of analyze_section fails: no sleep, one call.
C13_Witness ==
    /\ gFn = "analyze_section"
    /\ gOuts = <<"error">>
    /\ gSleeps = <<>>
    /\ gPc = "done"

\* C14: for every response text, the result of analyze_section is the
\* recovered object with its tags, or the error parse_failed with the
\* response text as raw_text.
C14_NeverDropped ==
    (gFn = "analyze_section" /\ gPc = "done" /\ gOuts # <<>>
        /\ Last(gOuts) = "ok") =>
        \/ /\ "error" \notin DOMAIN gResult
           /\ gResult["_section"] = gSection
           /\ gResult["_model"] = Model
        \/ /\ "error" \in DOMAIN gResult
           /\ gResult["error"] = "parse_failed"
           /\ "raw_text" \in DOMAIN gResult
           /\ gResult["raw_text"] = gText

\* The members of an object text, as a dict.
DictOf(obj) ==
    [k \in {obj[i] : i \in 1..Len(obj)} \cap Members |-> MemberValue(k)]

\* C15: _parse_json_response returns the same object for a bare JSON
\* object, for the object in a code fence, with or without the tag json,
\* and for prose that contains the object.
C15_SameObject ==
    pOut # Pending =>
        /\ pOut = ParseJsonResponse(pObject)
        /\ pOut.kind = "dict"
        /\ pOut.dict = DictOf(pObject)

\* The object of members a and b within prose has been recovered.
C15_Witness ==
    /\ pWrap = "prose_around"
    /\ pOut.kind = "dict"
    /\ DOMAIN pOut.dict = {"a", "b"}

\* C16: analyze_section for a section name without prompt template (any
\* other than business, risk_factors, mda) returns an error result without
\* a call to the endpoint and without a sleep.
C16_UnknownSection ==
    (gFn = "analyze_section" /\ gPc # "new"
        /\ gSection \notin {"business", "risk_factors", "mda"}) =>
        /\ gPc = "done"
        /\ gOuts = <<>>
        /\ gSleeps = <<>>
        /\ "error" \in DOMAIN gResult

\* analyze_section for market_risk has returned its error.
C16_Witness ==
    /\ gFn = "analyze_section"
    /\ gSection = "market_risk"
    /\ gPc = "done"
    /\ gResult = NoPromptTemplate

----------------------------------------------------------------------------
(* Properties of the synthesis *)

\* C17: the synthesis starts only after every analysis issued for the
\* filing has returned, and receives the full set of their results; no
\* synthesis is in flight while an analysis of the filing is.
C17_SynthesisAfterAll ==
    /\ sPc # "none" =>
         /\ sInflightAtCall = {}
         /\ \A name \in SectionsToAnalyze :
               aPc[name] # "skipped" =>
                  /\ aPc[name] = "returned"
                  /\ name \in DOMAIN sArg
                  /\ sArg[name] = aResult[name]
         /\ \A name \in DOMAIN sArg : aPc[name] = "returned"
    /\ sPc = "inflight" => \A name \in SectionsToAnalyze : aPc[name] # "inflight"

\* The synthesis is in flight with the results of all three analyses.
C17_Witness ==
    /\ sPc = "inflight"
    /\ DOMAIN sArg = SectionsToAnalyze
    /\ \A name \in SectionsToAnalyze : aPc[name] = "returned"

\* C18: no analysis embedded in the synthesis prompt has a key that begins
\* with "_"; every other key of the analysis is embedded with its value;
\* and the caller's analyses are as they were at the call.
C18_TagsStripped ==
    sPc # "none" =>
        /\ DOMAIN sEmbedded = DOMAIN sArg
        /\ \A name \in DOMAIN sArg :
              /\ \A k \in DOMAIN sEmbedded[name] : k[1] # "_"
              /\ \A k \in DOMAIN sArg[name] :
                    k[1] # "_" =>
                       /\ k \in DOMAIN sEmbedded[name]
                       /\ sEmbedded[name][k] = sArg[name][k]
              /\ DOMAIN sEmbedded[name] \subseteq DOMAIN sArg[name]
        /\ analyses = sArg

\* An object with a key of the model's own that begins with "_", and an
\* error with its raw_text, have been embedded.
C18_Witness ==
    /\ sPc # "none"
    /\ "business" \in DOMAIN sArg /\ "mda" \in DOMAIN sArg
    /\ NoteKey \in DOMAIN sArg["business"]
    /\ DOMAIN sEmbedded["business"] = {SummaryKey}
    /\ DOMAIN sEmbedded["mda"] = {ErrorKey, RawTextKey}

----------------------------------------------------------------------------
(* Properties of the two modes *)

WatchlistTickers == [i \in 1..Len(Watchlist) |-> Watchlist[i].ticker]

\* C19: in backfill mode run_pipeline is invoked once for every entry of
\* the watchlist, in watchlist order, however the earlier runs ended: a
\* failure inside a run becomes a None result and the loop goes on.
C19_EveryEntryOnce ==
    /\ bPc \in {"loop", "running", "done"}
    /\ Len(bInvoked) <= Len(Watchlist)
    /\ bInvoked = SubSeq(WatchlistTickers, 1, Len(bInvoked))
    /\ bPc = "done" => bInvoked = WatchlistTickers
    /\ bPc = "running" => Len(bInvoked) = bIndex
    /\ bPc = "loop" => Len(bInvoked) = bIndex - 1

\* The backfill is done, the first two runs having failed and the last
\* having given a brief.
C19_Witness ==
    /\ bPc = "done"
    /\ bInvoked = <<"AAPL", "MSFT", "GOOGL", "NVDA", "META">>
    /\ bCaught = {"AAPL", "MSFT"}
    /\ bResults["AAPL"] = "None"
    /\ bResults["MSFT"] = "None"
    /\ bResults["META"] = "brief"

\* C20: in watch mode the consumer takes the events in the order the
\* watcher put them and runs the pipeline of one event to its end before
\* it takes the next: at most one run is in progress, while the watcher
\* may put events.
C20_InOrderOneAtATime ==
    /\ cDeq \o cQueue = cEnq
    /\ cActive \in {0, 1}
    /\ cActive = 1 <=> cCur # NoEvent
    /\ cDeq = IF cCur = NoEvent THEN cEnded ELSE Append(cEnded, cCur)

\* Two runs have ended and the third is in progress, with events put while
\* a run was in progress.
C20_Witness ==
    /\ Len(cEnded) = 2
    /\ cActive = 1
    /\ cPutWhileBusy
    /\ cEnq[1] # cEnq[2]

----------------------------------------------------------------------------
(* Properties of the filing locator *)

Range(s) == { s[i] : i \in 1..Len(s) }

\* The name ends in an HTML extension, in any letter case.
HtmlExtension(s) ==
    EndsWith(LowerSeq(s), DotHtm) \/ EndsWith(LowerSeq(s), DotHtml)

IsDigit(c) == \E j \in 1..10 : DigitChars[j] = c
IsLetter(c) == ~IsDigit(c) /\ c \notin {".", "/"}

\* The auxiliary-viewer naming convention: a single leading letter followed
\* by digits, in any letter case (R2.htm, r2.htm).
ViewerName(name) ==
    LET stem == BeforeFirstDot(name) IN
    /\ Len(stem) >= 2
    /\ IsLetter(stem[1])
    /\ \A i \in 2..Len(stem) : IsDigit(stem[i])

\* An href that stage 2 may return.
LinkQualifies(h) == HtmlExtension(h) /\ ~Contains(LowerSeq(h), IndexWord)

Stage1Over == lPc \in {"stage2", "done"}
Stage2Fetched == "html_index" \in Range(lFetched)
IndexUnavailable == lIndex.kind # "ok"
NoCandidate == lIndex.kind = "ok" /\ lHtmFiles = <<>>
SizeUnreadable ==
    \E i \in 1..Len(lHtmFiles) : ~IsNumeric(GetSize(lHtmFiles[i]))

\* Stage 2, when its page was read, returned the first qualifying href in
\* document order, or None when there is none.
FirstQualifyingReturned ==
    lPc = "done" /\ lPage.kind = "ok" =>
        LET q == { i \in 1..Len(lPage.hrefs) : LinkQualifies(lPage.hrefs[i]) } IN
        IF q = {} THEN lResult = NoUrl
        ELSE \E i \in q :
               /\ \A j \in q : i <= j
               /\ lResult.path = lPage.hrefs[i]
               /\ lResult.base \in {SecGov, IndexUrl}

\* C22 as claimed: the HTML index page is requested if and only if the JSON
\* index is unavailable or yields no candidate; when stage 1 yields a
\* candidate its URL is returned and the page is never requested; stage 2
\* returns the first qualifying href.
C22_FallbackIff ==
    /\ Stage1Over =>
         /\ Stage2Fetched <=> (IndexUnavailable \/ NoCandidate)
         /\ lIndex.kind = "ok" /\ lHtmFiles # <<>> =>
              /\ ~Stage2Fetched
              /\ \E i \in 1..Len(lHtmFiles) :
                    lResult = Url(IndexUrl, lHtmFiles[i].name)
    /\ FirstQualifyingReturned

\* C22 as amended: the HTML index page is requested if and only if stage 1
\* returned no URL, which is when the JSON index is unavailable, yields no
\* candidate, or has a candidate whose size does not read as an integer;
\* when stage 1 yields candidates whose sizes all read as integers the URL
\* of one of them is returned and the page is never requested; stage 2
\* returns the first qualifying href.
C22_FallbackUnlessReturned ==
    /\ Stage1Over =>
         /\ Stage2Fetched <=> (IndexUnavailable \/ NoCandidate \/ SizeUnreadable)
         /\ lIndex.kind = "ok" /\ lHtmFiles # <<>> /\ ~SizeUnreadable =>
              /\ ~Stage2Fetched
              /\ \E i \in 1..Len(lHtmFiles) :
                    lResult = Url(IndexUrl, lHtmFiles[i].name)
    /\ FirstQualifyingReturned

\* Stage 1 had a candidate with an unreadable size, and stage 2 returned the
\* second href of its page, the first being the index page itself.
C22_Witness ==
    /\ lPc = "done"
    /\ lIndex.kind = "ok" /\ lHtmFiles # <<>> /\ SizeUnreadable
    /\ Stage2Fetched
    /\ Len(lPage.hrefs) = 2
    /\ ~LinkQualifies(lPage.hrefs[1])
    /\ lResult = Url(IndexUrl, lPage.hrefs[2])

\* C23: the call never raises, and when both stages fail -- the request
\* fails, the JSON is malformed, a size is not numeric, no file or no link
\* matches -- it returns None.
C23_NoneNeverRaises ==
    /\ lRaised = None
    /\ lPc = "done" => lResult # UnsetUrl
    /\ ( /\ lPc = "done"
         /\ IndexUnavailable \/ NoCandidate \/ SizeUnreadable
         /\ \/ lPage.kind = "raise"
            \/ /\ lPage.kind = "ok"
               /\ \A i \in 1..Len(lPage.hrefs) : ~LinkQualifies(lPage.hrefs[i]) )
       => lResult = NoUrl

\* Stage 1 failed on a size that is not numeric and stage 2 on the
\* exhaustion of its retries: the call returned None.
C23_Witness ==
    /\ lPc = "done"
    /\ lIndex.kind = "ok" /\ SizeUnreadable
    /\ lPage.kind = "raise" /\ lPage.error = "RuntimeError"
    /\ lResult = NoUrl
    /\ lRaised = None

\* An item that the candidate set is claimed to hold.
ClaimedCandidate(item) ==
    /\ HtmlExtension(item.name)
    /\ ~Contains(LowerSeq(item.name), IndexWord)
    /\ ~ViewerName(item.name)

\* C24: the candidates of stage 1 are exactly the items whose name ends in an
\* HTML extension, is not an index file and does not follow the viewer
\* convention (one leading letter, then digits, in any letter case).
C24_CandidateSet ==
    Stage1Over /\ lIndex.kind = "ok" =>
        lHtmFiles = SelectSeq(lIndex.items, ClaimedCandidate)

\* C25: the candidate that stage 1 selects is one of the candidates, its URL
\* is the one returned, and no candidate has a larger size.
C25_LargestCandidate ==
    lPrimary # NoItem =>
        /\ lPc = "done"
        /\ lPrimary \in Range(lHtmFiles)
        /\ lResult = Url(IndexUrl, lPrimary.name)
        /\ \A i \in 1..Len(lHtmFiles) :
              SizeKey(lHtmFiles[i]) <= SizeKey(lPrimary)

\* Two candidates, the larger ("10") listed after the smaller ("9"): the
\* second is selected.
C25_Witness ==
    /\ lPrimary # NoItem
    /\ Len(lHtmFiles) = 2
    /\ lHtmFiles[1].size = <<"9">>
    /\ lHtmFiles[2].size = <<"1", "0">>
    /\ lPrimary = lHtmFiles[2]
    /\ lHtmFiles[1].name # lHtmFiles[2].name

\* C26: the call returns the accession at the first position, among those
\* both arrays have, whose form is exactly 10-K, and None when there is no
\* such position.
C26_FirstAnnual ==
    xPc = "done" =>
        LET forms == GetList(xData.form)
            accessions == GetList(xData.accessionNumber)
            hits == { i \in 1..Len(forms) :
                        i <= Len(accessions) /\ forms[i] = "10-K" }
        IN IF hits = {} THEN xResult = None
           ELSE \E i \in hits : (\A j \in hits : i <= j) /\ xResult = accessions[i]

\* The first form is an amendment and the second the annual report: the
\* second accession is returned.
C26_Witness ==
    /\ xPc = "done"
    /\ Len(GetList(xData.form)) = 2
    /\ xData.form[1] = "10-K/A" /\ xData.form[2] = "10-K"
    /\ Len(GetList(xData.accessionNumber)) = 2
    /\ xData.accessionNumber[1] # xData.accessionNumber[2]
    /\ xResult = xData.accessionNumber[2]

----------------------------------------------------------------------------
(* Properties of the parser *)

FiveSections == {"business", "risk_factors", "mda", "market_risk", "financials"}

\* C27: the start of every extracted section is the last occurrence of its
\* heading pattern, where its text begins; when the heading occurs twice it
\* is the second occurrence.
C27_LastOccurrence ==
    ePc = "done" =>
        \A name \in DOMAIN eSections :
            LET occurrences == HeadingStarts(name, eText) IN
            /\ eBounds[name].start \in occurrences
            /\ \A p \in occurrences : p <= eBounds[name].start
            /\ Head(eSections[name]) = Heading(name)

\* Two sections, each heading once in the table of contents and once at the
\* section: both start at the second occurrence.
C27_Witness ==
    /\ ePc = "done"
    /\ Cardinality(DOMAIN eSections) = 2
    /\ \A name \in DOMAIN eSections :
          /\ Cardinality(HeadingStarts(name, eText)) = 2
          /\ \E p \in HeadingStarts(name, eText) : p < eBounds[name].start

\* C28: the keys of the mapping are exactly those of the five names whose
\* heading pattern occurs in the text; a text without any gives the empty
\* mapping.
C28_KeysAreFound ==
    ePc = "done" =>
        DOMAIN eSections =
            { name \in FiveSections : HeadingStarts(name, eText) # {} }

\* A text with the heading of the market risk section at a line start and
\* that of the business section only inside a line: the first is a key,
\* the second is not.
C28_Witness ==
    /\ ePc = "done"
    /\ DOMAIN eSections = {"market_risk"}
    /\ \E i \in 1..Len(eText) : eText[i] = Heading("business")

\* The slices of the sections in the order of their starts: each ends where
\* the next starts, the last at 50000 characters (SectionCap in the model)
\* or at the end of the text.
SlicesContiguous ==
    \A i \in 1..Len(eOrder) :
        LET b == eBounds[eOrder[i]] IN
        IF i < Len(eOrder)
        THEN /\ b.start < b.end
             /\ b.end = eBounds[eOrder[i + 1]].start
        ELSE b.end = Min(b.start + SectionCap, Len(eText))

\* C29 as claimed: the text of each section is its slice of the document.
C29_TextIsSlice ==
    ePc = "done" =>
        /\ SlicesContiguous
        /\ \A name \in DOMAIN eSections :
              eSections[name] =
                  Slice(eText, eBounds[name].start, eBounds[name].end)

\* C29 as amended: the text of each section is its slice of the document
\* with the whitespace at both ends removed.
C29_TextIsStrippedSlice ==
    ePc = "done" =>
        /\ SlicesContiguous
        /\ { eOrder[i] : i \in 1..Len(eOrder) } = DOMAIN eSections
        /\ \A name \in DOMAIN eSections :
              eSections[name] =
                  StripText(Slice(eText, eBounds[name].start, eBounds[name].end))

\* Two sections: the first is longer than the cap and whole, the last is
\* cut at the cap before the end of the text, and what is returned for the
\* last is shorter than its slice.
C29_Witness ==
    /\ ePc = "done"
    /\ Len(eOrder) = 2
    /\ eBounds[eOrder[1]].end - eBounds[eOrder[1]].start > SectionCap
    /\ Len(eSections[eOrder[1]]) > SectionCap
    /\ eBounds[eOrder[2]].end = eBounds[eOrder[2]].start + SectionCap
    /\ eBounds[eOrder[2]].end < Len(eText)
    /\ Len(eSections[eOrder[2]]) < SectionCap

\* The sections of the argument that are present with at least their own
\* minimum of words.
AtOrAbove ==
    { name \in DOMAIN vSections :
        \/ name \in {"business", "mda"} /\ vSections[name] >= 500
        \/ name = "risk_factors" /\ vSections[name] >= 300
        \/ name \in {"market_risk", "financials"} /\ vSections[name] >= 100 }

\* C30: the score is 100 * p / 5 truncated, p the number of the five names
\* present with their minimum of words; it lies in 0..100, is 100 when all
\* five are and 0 when none is.
C30_QualityScore ==
    vPc = "done" =>
        /\ vScore = (100 * Cardinality(AtOrAbove)) \div 5
        /\ vScore \in 0..100
        /\ AtOrAbove = FiveSections => vScore = 100
        /\ DOMAIN vSections = {} => vScore = 0

\* Four sections at their minimum and the fifth one word below its own: the
\* score is 80.
C30_Witness ==
    /\ vPc = "done"
    /\ DOMAIN vSections = FiveSections
    /\ vSections["business"] = 500
    /\ vSections["risk_factors"] = 300
    /\ vSections["mda"] = 500
    /\ vSections["market_risk"] = 100
    /\ vSections["financials"] = 99
    /\ vScore = 80

----------------------------------------------------------------------------
(* Properties of the watchlist lookup *)

\* The entries of a watchlist whose identifier denotes the number cik does.
SameNumber(wl, cik) == {i \in 1..Len(wl) : Num(wl[i].cik) = Num(cik)}

\* C31: an entry whose company identifier equals a watchlist identifier up
\* to leading zeros, on either side, is accepted, and its event carries the
\* ticker of such a watchlist entry with the identifier as the watchlist
\* writes it; an identifier that differs in number from every watchlist
\* identifier is never accepted.
C31_LeadingZeros ==
    kPc = "done" =>
        IF SameNumber(kWatchlist, kCik) = {}
        THEN kTicker = None /\ kEvent = NoFiling
        ELSE \E i \in SameNumber(kWatchlist, kCik) :
                /\ kTicker = kWatchlist[i].ticker
                /\ kEvent = [ticker |-> kWatchlist[i].ticker,
                             cik |-> kWatchlist[i].cik]

\* The watchlist writes 032, the feed 32: the entry is accepted, with 032.
C31_Witness ==
    /\ kPc = "done"
    /\ kCik = <<3, 2>>
    /\ Len(kWatchlist) = 1
    /\ kWatchlist[1].cik = <<0, 3, 2>>
    /\ kEvent = [ticker |-> kWatchlist[1].ticker, cik |-> <<0, 3, 2>>]

----------------------------------------------------------------------------
(* Properties of the feed poll beside the client *)

\* C32: every request the process sends to the archive passes through the
\* one rate limiter, the feed poll of the watcher included: a feed request
\* never starts within sec_rate_limit_delay of the latest request of the
\* EDGARClient.
C32_FeedThroughLimiter == feedGap = NoGap \/ feedGap >= RateLimitDelay

----------------------------------------------------------------------------
(* Properties of an event and its pipeline run *)

\* The pipeline run for the event in hand has returned.
EventRunOver == cCur # NoEvent /\ rpc = "idle"

\* C33: the pipeline run that consumes the event for accession X processes
\* X: the accession it resolves is X, and when it has returned X is
\* recorded in storage or the run has failed on X.
C33_EventAccessionProcessed ==
    /\ (cCur # NoEvent /\ rAcc # None) => rAcc = cCur.accession
    /\ EventRunOver =>
          \/ filings[cCur.accession] > 0
          \/ rAcc = cCur.accession /\ rCaught

----------------------------------------------------------------------------
(* Properties of run_pipeline after the filing is saved *)

\* C34: whenever run_pipeline has returned, every accession that has a
\* filing record in storage has an investment brief record as well.
C34_FilingHasBrief ==
    rpc = "idle" => \A a \in Accessions : filings[a] > 0 => briefs[a] > 0

----------------------------------------------------------------------------
(* Properties of the synthesis of a run *)

\* Every analysis that returned gave a dict with the key error.
AllAnalysesFailed ==
    \A name \in DOMAIN analyses : ErrorKey \in DOMAIN analyses[name]

----------------------------------------------------------------------------
(* Properties of the annual values *)

\* The entries of a concept that are annual: form 10-K and fp FY.
AnnualOf(concept) ==
    LET values == UsdValues(nUsGaap, concept)
    IN  { values[i] : i \in { j \in 1..Len(values) :
                                 values[j].form = "10-K" /\ values[j].fp = "FY" } }

\* The positions of the priority list whose concept has an annual entry.
WithAnnual == { i \in 1..Len(nConcepts) : AnnualOf(nConcepts[i]) # {} }

\* The period ends of a set of entries that are more recent than end.
MoreRecent(entries, end) == { e.end : e \in { x \in entries : StrLess(end, x.end) } }

\* C36: _extract_annual_values returns values of the first concept of the
\* priority list that has an entry with form 10-K and fp FY, and of no
\* other; each is such an annual entry; there are at most 3, their period
\* ends are pairwise distinct and the most recent ones, and they are
\* ordered from the most recent to the oldest; the list is empty when no
\* concept of the list has an annual entry.
C36_AnnualValues ==
    nPc = "done" =>
        IF WithAnnual = {} THEN nResult = <<>>
        ELSE LET first == CHOOSE i \in WithAnnual : \A j \in WithAnnual : i <= j
                 annual == AnnualOf(nConcepts[first])
                 ends == { e.end : e \in annual }
             IN  /\ nResult # <<>>
                 /\ Len(nResult) <= 3
                 /\ Len(nResult) = IF Cardinality(ends) < 3
                                   THEN Cardinality(ends) ELSE 3
                 /\ \A i \in 1..Len(nResult) :
                       /\ \E e \in annual :
                             /\ nResult[i].period_end = e.end
                             /\ nResult[i].value = e.val
                             /\ nResult[i].fiscal_year = e.fy
                       /\ Cardinality(MoreRecent(annual, nResult[i].period_end))
                             = i - 1
                 /\ \A i, j \in 1..Len(nResult) :
                       i < j => StrLess(nResult[j].period_end,
                                        nResult[i].period_end)

\* The first concept has only the entry of an amended filing, the second
\* an annual one: the value of the second is returned.
C36_Witness ==
    /\ nPc = "done"
    /\ Len(nConcepts) = 2
    /\ nConcepts[1] \in DOMAIN nUsGaap
    /\ Len(nUsGaap[nConcepts[1]]) = 1
    /\ nUsGaap[nConcepts[1]][1].form = "10-K/A"
    /\ Len(nUsGaap[nConcepts[2]]) = 1
    /\ Len(nResult) = 1
    /\ nResult[1].value = nUsGaap[nConcepts[2]][1].val

----------------------------------------------------------------------------
(* Properties of the backoff sleeps *)

\* A call of _rate_limited_get that failed slept once between each two of
\* its attempts, and not after the last.
ClientSleepsBetweenAttempts ==
    \A c \in RLCalls :
        Failed(c) =>
            /\ Len(backoffs[c]) = Len(outs[c]) - 1
            /\ SumSeq(backoffs[c])
                 = SumSeq([i \in 1..(Len(outs[c]) - 1) |-> Seconds(2 ^ i)])

\* A call of analyze_section or generate_investment_brief that has returned
\* slept once between each two of its calls of the endpoint, and not after
\* the last.
AnalyzerSleepsBetweenAttempts ==
    (gPc = "done" /\ gOuts # <<>>) => Len(gSleeps) = Len(gOuts) - 1

\* C37: a backoff sleep is performed only when a further attempt follows
\* it, in _rate_limited_get, analyze_section and generate_investment_brief:
\* the time spent before a failure is reported is the sum of the backoffs
\* between the attempts.
C37_NoSleepAfterFinalAttempt ==
    ClientSleepsBetweenAttempts /\ AnalyzerSleepsBetweenAttempts

----------------------------------------------------------------------------
(* Properties of the queueing of run() *)

\* No accession occurs twice in a sequence.
NoRepeat(accs) == \A i, j \in 1..Len(accs) : accs[i] = accs[j] => i = j

\* C38: in run(), the accessions a poll cycle adds to the seen set are put
\* on the queue, each once, in the order of the list poll_once returned, and
\* no accession is put on the queue twice while the watcher lives, be it
\* repeated in a feed, listed again in a later cycle, or in storage at the
\* start.
C38_EnqueuedOnce ==
    /\ [](NoRepeat(enqueued)
            /\ \A i \in 1..Len(enqueued) : enqueued[i] \in seen)
    /\ [][(wpc = "polling" /\ wpc' = "sleeping" /\ cycle' = "ok") =>
            /\ enqueued' = enqueued \o AccessionsOf(lastEvents')
            /\ queue' = queue \o lastEvents'
            /\ NoRepeat(AccessionsOf(lastEvents'))
            /\ {lastEvents'[i].accession : i \in 1..Len(lastEvents')}
                  = seen' \ seen]_vars
    /\ [][~(wpc = "polling" /\ wpc' = "sleeping" /\ cycle' = "ok") =>
            /\ enqueued' = enqueued
            /\ (wpc # "new" => seen' = seen)]_vars

\* Two accessions were put in one cycle, B before A, as the feed listed
\* them, and a later cycle has returned and put nothing more.
C38_Witness ==
    /\ enqueued = <<"B", "A">>
    /\ seen = {"A", "B"}
    /\ wpc = "sleeping"
    /\ cycle = "ok"
    /\ lastEvents = <<>>

----------------------------------------------------------------------------
(* Properties of the token counter *)

\* The total_tokens reported by the responses the calls got.
ReportedTokens == SumOver(tOwn, SectionsToAnalyze)

\* C39: with the analyze_section calls of one GroqAnalyzer gathered,
\* total_tokens_used never decreases, and once every call has returned it
\* is the sum of the total_tokens the responses reported: no interleaving
\* of the calls loses an addition to the counter.
C39_NoLostTokens ==
    /\ [][total_tokens_used' >= total_tokens_used]_vars
    /\ [](tGather = "returned" => total_tokens_used = ReportedTokens)

\* Two calls were in flight together, each sent when the counter was 0, and
\* each got a response that reported tokens; all calls have returned.
C39_Witness ==
    /\ tGather = "returned"
    /\ \E s, t \in SectionsToAnalyze :
        /\ s # t
        /\ tSent[s] = 0 /\ tSent[t] = 0
        /\ tOwn[s] > 0 /\ tOwn[t] > 0
        /\ total_tokens_used >= tOwn[s] + tOwn[t]

====
